---- MODULE Spec2Model ----
(***************************************************************************)
(* cfc (cron for containers): the supervisor of src/bin/main.rs, the      *)
(* per-job scheduler loop JobInfo::start of src/job/mod.rs and the job    *)
(* decoder JobInfo::try_from that the loaders of src/loader/mod.rs feed.  *)
(*                                                                         *)
(* Time is counted in half seconds, so that an execution of 2.5 seconds   *)
(* and a schedule of one second are both whole numbers of ticks.  A task  *)
(* of a JoinSet is a record [kind, left, dur]: left is the number of      *)
(* ticks until the task completes, dur the length it was spawned with.    *)
(* Under Spec every task is spawned with left = 0: it may complete at any *)
(* later step, in any order.  Under SpecTimed the action Tick counts the  *)
(* tasks down.                                                             *)
(*                                                                         *)
(* SpecLabels runs get_tagged_targets of src/loader/docker.rs over the     *)
(* labels of sample containers, one label per step in any iteration order; *)
(* SpecDecode runs map_to_job and JobInfo::try_from over one attribute map.*)
(*                                                                         *)
(* SpecSchedule runs schedule_to_cron over schedule texts, SpecIni and     *)
(* SpecYaml run parse_ini and parse_yaml over the items and events of     *)
(* their parsers, one per step; SpecFile runs load_file over sample paths  *)
(* and payloads; SpecExec runs ExecJobInfo::exec against the answers of    *)
(* the Docker daemon, SpecExecutors the exec of the other job kinds,       *)
(* SpecContext runs CliArgs::get_context over command lines, and SpecCron  *)
(* runs cron_sleep and the Fire of JobInfo::start on a clock that counts   *)
(* parts of a millisecond.                                                 *)
(***************************************************************************)
EXTENDS Integers, Sequences, FiniteSets, Bags, TLC

\* ------------------------------------------------------------------ bounds

\* most execution tasks one loop holds at once (guard of the Fire handler)
MaxExecs == 3
\* the counter of skipped fires saturates here
MaxSkips == 3
\* the counter of consecutive failed executions saturates here
MaxFails == 2
\* longest execution, in half seconds, under SpecTimed
MaxDur == 5

Min(a, b) == IF a < b THEN a ELSE b

\* --------------------------------------------------- job decoder (inputs)

Has(p, k) == k \in DOMAIN p

\* Vec::pop().unwrap(): the last value of an attribute list
Last(s) == s[Len(s)]

\* The schedules of the sample jobs: whether croner parses the string that
\* schedule_to_cron builds, the period of the pattern in half seconds and
\* whether the pattern has an occurrence at all (the 30th of February has
\* none: find_next_occurrence returns an error for it).
schedule_to_cron(sched) ==
    CASE sched = "@every 1s"    -> [ok |-> TRUE,  period |-> 2, occurs |-> TRUE]
      [] sched = "@every 2s"    -> [ok |-> TRUE,  period |-> 4, occurs |-> TRUE]
      [] sched = "@every 5s"    -> [ok |-> TRUE,  period |-> 10, occurs |-> TRUE]
      [] sched = "0 0 0 30 2 *" -> [ok |-> TRUE,  period |-> 2, occurs |-> FALSE]
      [] sched = "@hourly"      -> [ok |-> TRUE,  period |-> 7200, occurs |-> TRUE]
      [] OTHER                  -> [ok |-> FALSE, period |-> 0, occurs |-> FALSE]

\* an attribute that is present with an empty list: pop().unwrap() panics
PopPanics(p, k) == Has(p, k) /\ p[k] = <<>>

\* str::parse::<bool>(): exactly the two lowercase words parse
BoolTexts == {"true", "false"}
ParseBool(s) == s = "true"

\* a boolean attribute: str::parse::<bool>().unwrap() panics on any other text
BoolPanics(p, k) == Has(p, k) /\ (p[k] = <<>> \/ Last(p[k]) \notin BoolTexts)

JobKinds == {"job-exec", "job-run", "job-local", "job-service-run"}

\* does building the struct of this kind panic (an unwrap on None or on Err)
StructPanics(p, kind) ==
    \/ PopPanics(p, "name")
    \/ ~schedule_to_cron(Last(p["schedule"])).ok
    \/ PopPanics(p, "command")
    \/ kind = "job-exec" /\ (~Has(p, "container") \/ PopPanics(p, "container"))
    \/ kind # "job-local" /\ (PopPanics(p, "user") \/ BoolPanics(p, "tty"))
    \/ kind \in {"job-run", "job-service-run"}
          /\ (PopPanics(p, "image") \/ BoolPanics(p, "delete")
                \/ PopPanics(p, "container"))
    \/ kind = "job-run" /\ PopPanics(p, "hostname")
    \/ kind = "job-local" /\ PopPanics(p, "dir")

DecodeErr(msg) == [tag |-> "Err", msg |-> msg]
DecodePanic == [tag |-> "Panic"]

\* JobInfo::try_from: Ok with the job, Err, or a panic of the caller's thread
try_from(p) ==
    IF ~Has(p, "kind") \/ ~Has(p, "command") \/ ~Has(p, "schedule") THEN DecodeErr(IF ~Has(p, "kind") THEN "The job has no job type"
                   ELSE IF ~Has(p, "command") THEN "The job has no command"
                   ELSE "The job has no schedule")
    ELSE IF p["schedule"] = <<>> \/ p["kind"] = <<>> THEN DecodePanic
    ELSE LET kind == Last(p["kind"])
             cron == schedule_to_cron(Last(p["schedule"]))
         IN  IF kind \notin JobKinds THEN DecodeErr("Unsupported job type")
             ELSE IF StructPanics(p, kind) THEN DecodePanic
             ELSE IF kind = "job-run" /\ ~Has(p, "image") /\ ~Has(p, "container")
                  THEN DecodeErr("The job has neither an image nor a container parameter")
             ELSE LET name == IF Has(p, "name") THEN Last(p["name"]) ELSE ""
                      tty == IF Has(p, "tty") THEN ParseBool(Last(p["tty"])) ELSE FALSE
                      delete == IF Has(p, "delete") THEN ParseBool(Last(p["delete"]))
                                ELSE TRUE
                      command == Last(p["command"])
                      image == IF Has(p, "image") THEN <<Last(p["image"])>> ELSE <<>>
                      container == IF Has(p, "container") THEN <<Last(p["container"])>>
                                   ELSE <<>>
                  IN  [tag |-> "Ok",
                       job |-> CASE kind = "job-local" ->
                                      [kind |-> kind, name |-> name, command |-> command,
                                       period |-> cron.period, occurs |-> cron.occurs]
                                 [] kind = "job-exec" ->
                                      [kind |-> kind, name |-> name, command |-> command,
                                       period |-> cron.period, occurs |-> cron.occurs,
                                       tty |-> tty, container |-> container[1]]
                                 [] OTHER ->
                                      [kind |-> kind, name |-> name, command |-> command,
                                       period |-> cron.period, occurs |-> cron.occurs,
                                       tty |-> tty, delete |-> delete,
                                       image |-> image, container |-> container]]

\* map_to_job: the entries in the map's iteration order, the first failure ends it
RECURSIVE map_to_job(_)
map_to_job(map) ==
    IF map = <<>> THEN [tag |-> "Ok", jobs |-> <<>>]
    ELSE LET e == Head(map)
             p == IF Has(e.attrs, "name") THEN e.attrs
                  ELSE e.attrs @@ [x \in {"name"} |-> <<e.key>>]
             r == try_from(p)
         IN  IF r.tag = "Panic" THEN [tag |-> r.tag, jobs |-> <<>>]
             ELSE IF r.tag = "Err" THEN [tag |-> r.tag, jobs |-> <<>>, msg |-> r.msg]
             ELSE LET rest == map_to_job(Tail(map))
                  IN  IF rest.tag # "Ok" THEN rest
                      ELSE [tag |-> "Ok", jobs |-> <<r.job>> \o rest.jobs]

RECURSIVE RemoveKey(_, _)
RemoveKey(map, k) ==
    IF map = <<>> THEN <<>>
    ELSE IF Head(map).key = k THEN RemoveKey(Tail(map), k)
    ELSE <<Head(map)>> \o RemoveKey(Tail(map), k)

\* load_file: read, parse by extension, drop the [global] entry, decode
load_file(in) ==
    IF ~in.readable \/ ~in.parses THEN [tag |-> "Err", jobs |-> <<>>]
    ELSE map_to_job(RemoveKey(in.map, "global"))

\* load_labels: get_handle, get_tagged_targets, decode
load_labels(in) ==
    IF ~in.readable \/ ~in.parses THEN [tag |-> "Err", jobs |-> <<>>]
    ELSE map_to_job(in.map)

\* ------------------------------------------------------- sample inputs

Entry(k, a) == [key |-> k, attrs |-> a]

LocalOk == Entry("a", [kind |-> <<"job-local">>, command |-> <<"date">>,
                       schedule |-> <<"@every 1s">>])
ExecOk == Entry("b", [kind |-> <<"job-exec">>, command |-> <<"date">>,
                      schedule |-> <<"@every 2s">>, container |-> <<"c1">>,
                      tty |-> <<"true">>])
NeverOk == Entry("n", [kind |-> <<"job-local">>, command |-> <<"date">>,
                       schedule |-> <<"0 0 0 30 2 *">>])
GlobalSection == Entry("global", [loglevel |-> <<"debug">>])
NoCommand == Entry("c", [kind |-> <<"job-local">>, schedule |-> <<"@every 1s">>])
BadKind == Entry("d", [kind |-> <<"job-foo">>, command |-> <<"date">>,
                       schedule |-> <<"@every 1s">>])
BadSchedule == Entry("e", [kind |-> <<"job-local">>, command |-> <<"date">>,
                           schedule |-> <<"every now and then">>])
NoContainer == Entry("f", [kind |-> <<"job-exec">>, command |-> <<"date">>,
                           schedule |-> <<"@every 1s">>])
RunNoImage == Entry("g", [kind |-> <<"job-run">>, command |-> <<"date">>,
                          schedule |-> <<"@every 1s">>])
BadTty == Entry("h", [kind |-> <<"job-exec">>, command |-> <<"date">>,
                      schedule |-> <<"@every 1s">>, container |-> <<"c1">>,
                      tty |-> <<"yes">>])

\* the normalized maps a reader hands over, each in one iteration order
SampleMaps ==
    { <<>>, <<GlobalSection>>, <<LocalOk>>, <<ExecOk>>, <<NeverOk>>,
      <<LocalOk, ExecOk>>, <<GlobalSection, LocalOk>>,
      <<NoCommand>>, <<BadKind>>, <<BadSchedule>>, <<NoContainer>>,
      <<RunNoImage>>, <<BadTty>>,
      <<NoCommand, BadSchedule>>, <<BadSchedule, NoCommand>>, <<LocalOk, BadKind>> }

TimedMaps == { <<LocalOk>>, <<ExecOk>>, <<NeverOk>>, <<>>, <<BadSchedule>>, <<NoCommand>> }

Inputs(maps) ==
    { [readable |-> FALSE, parses |-> FALSE, map |-> <<>>],
      [readable |-> TRUE, parses |-> FALSE, map |-> <<>>] }
    \cup { [readable |-> TRUE, parses |-> TRUE, map |-> m] : m \in maps }

\* ------------------------------------------------------------------ state

VARIABLES
    args,         \* CliArgs: [command, docker]
    input,        \* the configuration the loader meets: [readable, parses, map]
    pc,           \* where main is: start, spawn, select, shutdown, or how it ended
    exit_code,    \* the process exit status, NoExit while it runs
    targets,      \* the job list main holds between loading and spawning
    loops,        \* main's JoinSet: one record per JobInfo::start task
    interrupted,  \* the ctrl_c future of main's select is ready
    timed,        \* tasks take time (SpecTimed) or complete at any step (Spec)
    scan,         \* get_tagged_targets: its arguments, the daemon's containers, its locals
    dec,          \* JobInfo::try_from: the attribute map it is given and its result
    sch,          \* schedule_to_cron: the string it is given and its result
    rd,           \* parse_ini or parse_yaml: the items left to read and its locals
    file,         \* load_file: the path, the payload and how far the load is
    ex,           \* ExecJobInfo::exec: the daemon's answers, the report and its position
    cli,          \* CliArgs::get_context: the parsed arguments and the context it builds
    cr            \* cron_sleep in one loop: the clock, the timer and the fires delivered

vars == <<args, input, pc, exit_code, targets, loops, interrupted, timed, scan, dec, sch, rd, file, ex, cli, cr>>

NoExit == 0 - 1

\* a function that is not at work in the specification at hand
Idle == [pc |-> "idle"]

OthersIdle == sch = Idle /\ rd = Idle /\ file = Idle /\ ex = Idle /\ cli = Idle /\ cr = Idle

Jobs == DOMAIN loops

Live(j) == loops[j].status \in {"spawned", "running"}

TimerTask(n) == [kind |-> "timer", left |-> n, dur |-> 0]
ExecTask(d) == [kind |-> "exec", left |-> d, dur |-> d]

Timers(set) == {t \in BagToSet(set) : t.kind = "timer"}
Execs(set) == {t \in BagToSet(set) : t.kind = "exec"}

RECURSIVE CountOf(_, _)
CountOf(ts, set) ==
    IF ts = {} THEN 0
    ELSE LET t == CHOOSE x \in ts : TRUE
         IN  CopiesIn(t, set) + CountOf(ts \ {t}, set)

NumTimers(set) == CountOf(Timers(set), set)
NumExecs(set) == CountOf(Execs(set), set)

\* ------------------------------------------------------- scheduler loop

\* e.may_run_parallel(): the four variants of this revision all answer true;
\* the loop reads the answer into a local and is written for both, and the
\* serial answer is explored as well.
may_run_parallel(kind) == BOOLEAN

\* the length of a new execution, in ticks
ExecDurations == IF timed THEN 0 .. MaxDur ELSE {0}

\* the wall clock modulo the schedule's period when the loop starts
Phases(job) == IF timed THEN 0 .. (job.period - 1) ELSE {0}

\* cron_sleep: the sleep until the next occurrence strictly after now; for a
\* pattern without occurrence the unwrap panics at once
cron_sleep(l) == IF timed /\ l.occurs THEN l.period - l.phase ELSE 0

\* set.spawn(cron_sleep(..))
SpawnTimer(set, l) == set (+) SetToBag({TimerTask(cron_sleep(l))})

\* set.spawn(exec_job.exec())
SpawnExec(set, d) == set (+) SetToBag({ExecTask(d)})

\* what join_next hands over for a completed task: the timer is Ok(Ok(Some(true)))
\* or, when find_next_occurrence fails, a join error (panic); an execution is a
\* report, an error result, or a join error (panic in exec)
Outcomes(l, t) ==
    IF t.kind = "timer"
    THEN (IF l.occurs THEN {"Fire"} ELSE {"JoinErr"})
    ELSE {"Report", "ExecErr", "JoinErr"}

\* if let Ok(Ok(Some(_))) = res
IsFire(res) == res = "Fire"

\* variants of the gate: without the emptiness test, and with the test negated
ShouldDispatchAlways(parallel, set) == TRUE
ShouldDispatchInverted(parallel, set) == parallel \/ set # EmptyBag

\* may_run_parallel || set.is_empty()
ShouldDispatch(parallel, set) == parallel \/ set = EmptyBag

\* variant of the Fire body: the next timer is armed inside the dispatch branch
OnFireArmOnDispatch(l, rest, d) ==
    LET dispatch == l.may_run_parallel \/ rest = EmptyBag
    IN  [l EXCEPT !.set = IF dispatch THEN SpawnTimer(SpawnExec(rest, d), l) ELSE rest,
                  !.skipped = IF dispatch THEN 0 ELSE Min(@ + 1, MaxSkips)]

\* the body of the while loop for a Fire, the joined task already removed
OnFire(l, rest, d) ==
    LET dispatch == ShouldDispatch(l.may_run_parallel, rest)
        spawned == IF dispatch THEN SpawnExec(rest, d) ELSE rest
    IN  [l EXCEPT !.set = SpawnTimer(spawned, l),
                  !.skipped = IF dispatch THEN 0 ELSE Min(@ + 1, MaxSkips)]

\* variants of the other body: an error result, or a join error, ends the loop
OnOtherErrFatal(l, rest, t, res) ==
    IF res = "ExecErr"
    THEN [l EXCEPT !.set = EmptyBag, !.status = "returned", !.fails = Min(@ + 1, MaxFails)]
    ELSE [l EXCEPT !.set = rest,
                   !.fails = IF res = "Report" THEN 0 ELSE @,
                   !.join_err = IF res = "JoinErr" THEN t.kind ELSE @]
OnOtherJoinFatal(l, rest, t, res) ==
    IF res = "JoinErr"
    THEN [l EXCEPT !.set = EmptyBag, !.status = "returned", !.join_err = t.kind]
    ELSE [l EXCEPT !.set = rest,
                   !.fails = IF res = "ExecErr" THEN Min(@ + 1, MaxFails) ELSE 0]

\* the body of the while loop for any other outcome: nothing is done
OnOther(l, rest, t, res) ==
    [l EXCEPT !.set = rest,
              !.fails = CASE res = "ExecErr" -> Min(@ + 1, MaxFails)
                          [] res = "Report" -> 0
                          [] OTHER -> @,
              !.join_err = IF res = "JoinErr" THEN t.kind ELSE @]

NewLoop(job) ==
    [status |-> "spawned", kind |-> job.kind, period |-> job.period,
     occurs |-> job.occurs, may_run_parallel |-> TRUE, phase |-> 0,
     set |-> EmptyBag, skipped |-> 0, fails |-> 0, join_err |-> "none"]

\* the first poll of JobInfo::start: the JoinSet, the flag, the first timer
LoopStart(j) ==
    /\ pc = "select"
    /\ loops[j].status = "spawned"
    /\ \E par \in may_run_parallel(loops[j].kind), ph \in Phases(loops[j]) :
         LET l == [loops[j] EXCEPT !.status = "running",
                                   !.may_run_parallel = par, !.phase = ph]
         IN  loops' = [loops EXCEPT ![j] = [l EXCEPT !.set = SpawnTimer(EmptyBag, l)]]
    /\ UNCHANGED <<args, input, pc, exit_code, targets, interrupted, timed, scan, dec, sch, rd, file, ex, cli, cr>>

\* one turn of `while let Some(res) = set.join_next().await`
LoopJoin(j, t, res) ==
    /\ pc = "select"
    /\ loops[j].status = "running"
    /\ BagIn(t, loops[j].set)
    /\ t.left = 0
    /\ res \in Outcomes(loops[j], t)
    /\ LET l == loops[j]
           rest == l.set (-) SetToBag({t})
       IN  IF IsFire(res)
           THEN /\ NumExecs(rest) < MaxExecs
                /\ \E d \in ExecDurations :
                     loops' = [loops EXCEPT ![j] = OnFire(l, rest, d)]
           ELSE loops' = [loops EXCEPT ![j] = OnOther(l, rest, t, res)]
    /\ UNCHANGED <<args, input, pc, exit_code, targets, interrupted, timed, scan, dec, sch, rd, file, ex, cli, cr>>

LoopFire(j) == \E t \in BagToSet(loops[j].set) : LoopJoin(j, t, "Fire")
LoopReport(j) == \E t \in BagToSet(loops[j].set) : LoopJoin(j, t, "Report")
LoopExecErr(j) == \E t \in BagToSet(loops[j].set) : LoopJoin(j, t, "ExecErr")
LoopJoinErr(j) == \E t \in BagToSet(loops[j].set) : LoopJoin(j, t, "JoinErr")

\* join_next answers None on an empty set: start warns and returns its error
LoopReturn(j) ==
    /\ pc = "select"
    /\ loops[j].status = "running"
    /\ loops[j].set = EmptyBag
    /\ loops' = [loops EXCEPT ![j].status = "returned"]
    /\ UNCHANGED <<args, input, pc, exit_code, targets, interrupted, timed, scan, dec, sch, rd, file, ex, cli, cr>>

\* ------------------------------------------------------------ supervisor

LoadResult == IF args.docker THEN load_labels(input) ELSE load_file(input)

\* variant: the empty list is not tested
DaemonOutcomeNoEmptyTest(r) ==
    IF r.tag # "Ok" THEN [pc |-> "panicked", code |-> 101, targets |-> <<>>]
    ELSE [pc |-> "spawn", code |-> NoExit, targets |-> r.jobs]

\* main, daemon branch: load_*(..).unwrap() panics on a failed load (status
\* 101), an empty list is exit(1), anything else goes on to the spawning
DaemonOutcome(r) ==
    IF r.tag # "Ok" THEN [pc |-> "panicked", code |-> 101, targets |-> <<>>]
    ELSE IF r.jobs = <<>> THEN [pc |-> "exit_no_job", code |-> 1, targets |-> <<>>]
    ELSE [pc |-> "spawn", code |-> NoExit, targets |-> r.jobs]

\* main, daemon branch, up to the empty-list test
MainDaemonLoad ==
    /\ pc = "start"
    /\ args.command = "daemon"
    /\ LET o == DaemonOutcome(LoadResult)
       IN  pc' = o.pc /\ exit_code' = o.code /\ targets' = o.targets
    /\ UNCHANGED <<args, input, loops, interrupted, timed, scan, dec, sch, rd, file, ex, cli, cr>>

\* main, validate branch: Ok falls off the end of main (status 0), Err is
\* exit(1), a panic inside the decoder ends the process with status 101
ValidateOutcome(r) ==
    CASE r.tag = "Ok" -> [pc |-> "exit_validated", code |-> 0]
      [] r.tag = "Err" -> [pc |-> "exit_invalid", code |-> 1]
      [] OTHER -> [pc |-> "panicked", code |-> 101]

\* main, validate branch
MainValidate ==
    /\ pc = "start"
    /\ args.command = "validate"
    /\ LET o == ValidateOutcome(load_file(input))
       IN  pc' = o.pc /\ exit_code' = o.code
    /\ UNCHANGED <<args, input, targets, loops, interrupted, timed, scan, dec, sch, rd, file, ex, cli, cr>>

\* main: get_handle().unwrap() and one set.spawn(target.start(handle)) per job
MainSpawn ==
    /\ pc = "spawn"
    /\ \E handle_ok \in BOOLEAN :
         IF handle_ok
         THEN /\ loops' = [j \in 1 .. Len(targets) |-> NewLoop(targets[j])]
              /\ pc' = "select" /\ exit_code' = NoExit
         ELSE /\ loops' = loops
              /\ pc' = "panicked" /\ exit_code' = 101
    /\ targets' = <<>>
    /\ UNCHANGED <<args, input, interrupted, timed, scan, dec, sch, rd, file, ex, cli, cr>>

\* set.abort_all() of JoinSet::shutdown: every unfinished loop task is flagged
AbortAll(ls) ==
    [j \in DOMAIN ls |->
        IF ls[j].status \in {"spawned", "running"}
        THEN [ls[j] EXCEPT !.status = "aborted"] ELSE ls[j]]

\* a loop's future is dropped: its JoinSet is dropped, which aborts its tasks
Dropped(l) ==
    IF l.status = "returned" THEN l
    ELSE [l EXCEPT !.status = "cancelled", !.set = EmptyBag]

\* select!, first branch: ctrl_c() is ready; warn and start set.shutdown()
MainOnInterrupt ==
    /\ pc = "select"
    /\ interrupted
    /\ loops' = AbortAll(loops)
    /\ pc' = "shutdown"
    /\ UNCHANGED <<args, input, exit_code, targets, interrupted, timed, scan, dec, sch, rd, file, ex, cli, cr>>

\* while main awaits in shutdown() the runtime drops an aborted loop
DropLoop(j) ==
    /\ pc = "shutdown"
    /\ loops[j].status = "aborted"
    /\ loops' = [loops EXCEPT ![j] = Dropped(loops[j])]
    /\ UNCHANGED <<args, input, pc, exit_code, targets, interrupted, timed, scan, dec, sch, rd, file, ex, cli, cr>>

\* variant: shutdown() does not wait for the loops
ShutdownDoneNoWait(ls) == TRUE

\* shutdown() is over when join_next has handed every loop back
ShutdownDone(ls) == \A j \in DOMAIN ls : ls[j].status \in {"returned", "cancelled"}

\* set.shutdown().await returns; exit(0)
MainExitOnSignal ==
    /\ pc = "shutdown"
    /\ ShutdownDone(loops)
    /\ pc' = "exit_signal"
    /\ exit_code' = 0
    /\ UNCHANGED <<args, input, targets, loops, interrupted, timed, scan, dec, sch, rd, file, ex, cli, cr>>

\* select!, second branch: set.join_next() gave a loop's result; debug!, error!,
\* main returns and the runtime drops every task
MainOnJobEnd ==
    /\ pc = "select"
    /\ \E j \in Jobs : loops[j].status = "returned"
    /\ loops' = [j \in Jobs |-> Dropped(loops[j])]
    /\ pc' = "exit_job_ended"
    /\ exit_code' = 0
    /\ UNCHANGED <<args, input, targets, interrupted, timed, scan, dec, sch, rd, file, ex, cli, cr>>

\* interrupt.expect(..): the ctrl_c future resolved to an error
MainListenFails ==
    /\ pc = "select"
    /\ ~interrupted
    /\ pc' = "panicked"
    /\ exit_code' = 101
    /\ UNCHANGED <<args, input, targets, loops, interrupted, timed, scan, dec, sch, rd, file, ex, cli, cr>>

\* ------------------------------------------------------------ environment

\* SIGINT while the ctrl_c future is polled by select!
SigintCaught ==
    /\ pc = "select"
    /\ ~interrupted
    /\ interrupted' = TRUE
    /\ UNCHANGED <<args, input, pc, exit_code, targets, loops, timed, scan, dec, sch, rd, file, ex, cli, cr>>

\* SIGINT before the handler exists: the default disposition ends the process
SigintDefault ==
    /\ pc \in {"start", "spawn"}
    /\ pc' = "killed_sigint"
    /\ exit_code' = 130
    /\ UNCHANGED <<args, input, targets, loops, interrupted, timed, scan, dec, sch, rd, file, ex, cli, cr>>

\* SIGTERM: no handler is ever registered, the default disposition ends the
\* process with the loops as they are
Sigterm ==
    /\ pc \in {"start", "spawn", "select", "shutdown"}
    /\ pc' = "killed_sigterm"
    /\ exit_code' = 143
    /\ UNCHANGED <<args, input, targets, loops, interrupted, timed, scan, dec, sch, rd, file, ex, cli, cr>>

\* a task that is due is joined before the clock moves on
Urgent(l) ==
    \/ l.status = "spawned"
    \/ l.status = "running" /\ (l.set = EmptyBag \/ \E t \in BagToSet(l.set) : t.left = 0)
    \/ l.status = "returned"

TickTask(t) == [t EXCEPT !.left = @ - 1]
UntickTask(t) == [t EXCEPT !.left = @ + 1]

TickSet(set) == [t \in {TickTask(x) : x \in BagToSet(set)} |-> set[UntickTask(t)]]

\* half a second passes
Tick ==
    /\ timed
    /\ pc = "select"
    /\ ~interrupted
    /\ \A j \in Jobs : ~Urgent(loops[j])
    /\ loops' = [j \in Jobs |->
                    [loops[j] EXCEPT !.set = TickSet(@),
                                     !.phase = (@ + 1) % loops[j].period]]
    /\ UNCHANGED <<args, input, pc, exit_code, targets, interrupted, timed, scan, dec, sch, rd, file, ex, cli, cr>>

\* ----------------------------------- label loader (get_tagged_targets)

\* most labels the sample container carries besides `cfc.enabled`
MaxLabels == 2

\* the items of a payload that parse_ini reads, the attributes of a job
\* of a document that parse_yaml reads
MaxItems == 3
\* the frames an output stream carries before it ends
MaxFrames == 3
\* the entries of the environment of a job-local job
MaxEnv == 3

\* A label key is the sequence of its pieces: the separator and the texts
\* between separators.  A label is a record [key, value].
Dot == "."

RECURSIVE Concat(_)
Concat(pieces) ==
    IF pieces = <<>> THEN "" ELSE Head(pieces) \o Concat(Tail(pieces))

\* the position of the first separator of a key, 0 when it has none
FirstDot(key) ==
    IF \E i \in 1 .. Len(key) : key[i] = Dot
    THEN CHOOSE i \in 1 .. Len(key) :
             key[i] = Dot /\ \A j \in 1 .. (i - 1) : key[j] # Dot
    ELSE 0

\* key.split("."): the texts between separators, empty ones included
RECURSIVE split(_)
split(key) ==
    LET i == FirstDot(key)
    IN  IF i = 0 THEN <<Concat(key)>>
        ELSE <<Concat(SubSeq(key, 1, i - 1))>> \o split(SubSeq(key, i + 1, Len(key)))

\* key_parts.next() for the n-th time
Part(parts, n) ==
    IF n <= Len(parts) THEN [some |-> TRUE, v |-> parts[n]]
    ELSE [some |-> FALSE, v |-> ""]

\* Vec::contains
Contains(list, v) == \E i \in 1 .. Len(list) : list[i] = v

\* HashMap::insert and HashMap::remove
Insert(m, k, v) == [x \in DOMAIN m \cup {k} |-> IF x = k THEN v ELSE m[x]]
Remove(m, k) == [x \in DOMAIN m \ {k} |-> m[x]]

\* json::parse on the sample values: what the crate answers for each
JsonString(s) == [type |-> "String", s |-> s]
JsonNumber == [type |-> "Number", s |-> ""]
JsonArrayAB == "[\"A=1\",\"B=2\"]"
JsonArrayEmpty == "[]"
JsonArrayMixed == "[\"A=1\",1]"
JsonQuoted == "\"A=1\""
JsonCut == "[\"A=1\""
json_parse(value) ==
    CASE value = JsonArrayAB ->
           [ok |-> TRUE, type |-> "Array",
            items |-> <<JsonString("A=1"), JsonString("B=2")>>]
      [] value = JsonArrayEmpty -> [ok |-> TRUE, type |-> "Array", items |-> <<>>]
      [] value = JsonArrayMixed ->
           [ok |-> TRUE, type |-> "Array", items |-> <<JsonString("A=1"), JsonNumber>>]
      [] value = JsonQuoted -> [ok |-> TRUE, type |-> "String", items |-> <<>>]
      [] value = "true" -> [ok |-> TRUE, type |-> "Boolean", items |-> <<>>]
      [] OTHER -> [ok |-> FALSE, type |-> "", items |-> <<>>]

\* the closure given to map_or_else: every element must be a string
RECURSIVE ArrayValuesPartial(_)
ArrayValuesPartial(items) ==
    IF items = <<>> THEN [ok |-> TRUE, values |-> <<>>]
    ELSE IF Head(items).type # "String" THEN [ok |-> TRUE, values |-> <<>>]
    ELSE LET r == ArrayValuesPartial(Tail(items))
         IN  [ok |-> r.ok, values |-> <<Head(items).s>> \o r.values]

RECURSIVE ArrayValues(_)
ArrayValues(items) ==
    IF items = <<>> THEN [ok |-> TRUE, values |-> <<>>]
    ELSE IF Head(items).type # "String" THEN [ok |-> FALSE, values |-> <<>>]
    ELSE LET r == ArrayValues(Tail(items))
         IN  [ok |-> r.ok, values |-> <<Head(items).s>> \o r.values]

JsonParameters == {"volume", "network", "environment"}

\* the list stored for a parameter: the match of lines 95 to 117
StoredValue(param, value) ==
    IF param \in JsonParameters
    THEN LET j == json_parse(value)
         IN  IF j.ok /\ j.type = "Array" /\ ArrayValues(j.items).ok
             THEN ArrayValues(j.items).values
             ELSE <<value>>
    ELSE <<value>>

\* the entry of a job key on first sight
InitialMapAlwaysContainer(cid, kind, name) ==
    [kind |-> <<kind>>, name |-> <<name>>, container |-> <<cid>>]

InitialMap(cid, kind, name) ==
    IF kind # "job-local"
    THEN [kind |-> <<kind>>, name |-> <<name>>, container |-> <<cid>>]
    ELSE [kind |-> <<kind>>, name |-> <<name>>]

JobKey(cid, kind, name) == cid \o "_" \o kind \o "_" \o name

\* what one turn of the label loop leaves: the map, how the turn ended
\* (go on or the error returned), the branch taken and the entry as seeded
Turn(job_map, res, note, seed) ==
    [job_map |-> job_map, res |-> res, note |-> note, seed |-> seed]

NoSeed == [seeded |-> FALSE]

\* is a parameter that the entry already holds accepted again
RepeatAcceptedAlways(stored, value) == TRUE
RepeatAccepted(stored, value) == Contains(stored, value)

\* lines 65 to 117: the label is taken into the map
Include(job_map, cid, kind, name, param, value) ==
    LET job_key == JobKey(cid, kind, name)
        first == job_key \notin DOMAIN job_map
        seeded == IF first THEN Insert(job_map, job_key, InitialMap(cid, kind, name))
                  ELSE job_map
        seed == IF first THEN [seeded |-> TRUE, key |-> job_key, entry |-> seeded[job_key]]
                ELSE NoSeed
        evt_info == seeded[job_key]
        exception == /\ param = "container"
                     /\ Has(evt_info, "container")
                     /\ Len(evt_info["container"]) = 1
                     /\ Contains(evt_info["container"], value)
    IN  IF ~Contains(evt_info["kind"], kind)
        THEN Turn(seeded, "ErrConflict", "conflict", seed)
        ELSE IF Has(evt_info, param) /\ ~exception
        THEN IF ~RepeatAccepted(evt_info[param], value)
             THEN Turn(seeded, "ErrValue", "repeat_differs", seed)
             ELSE Turn(seeded, "go", "repeat_same", seed)
        ELSE LET e == IF Has(evt_info, param) THEN Remove(evt_info, "container")
                      ELSE evt_info
             IN  Turn(Insert(seeded, job_key, Insert(e, param, StoredValue(param, value))),
                      "go", "stored", seed)

\* the key filter of lines 41 to 52
KeyFilterNoLengthTest(parts, prefixes) ==
    IF ~Part(parts, 1).some \/ ~Contains(prefixes, Part(parts, 1).v) THEN "skip_prefix"
    ELSE IF ~Part(parts, 2).some \/ ~Part(parts, 3).some \/ ~Part(parts, 4).some
    THEN "skip_parts"
    ELSE "pass"

KeyFilter(parts, prefixes) ==
    IF ~Part(parts, 1).some \/ ~Contains(prefixes, Part(parts, 1).v) THEN "skip_prefix"
    ELSE IF \/ ~Part(parts, 2).some \/ ~Part(parts, 3).some \/ ~Part(parts, 4).some
            \/ Part(parts, 5).some
    THEN "skip_parts"
    ELSE "pass"

\* the policy of lines 56 to 64
UnsafeSkippedNever(allow_unsafe_jobs, kind) == FALSE
UnsafeSkipped(allow_unsafe_jobs, kind) == ~allow_unsafe_jobs /\ kind = "job-local"

\* the body of `for (key, value) in container.labels`
LabelTurn(job_map, prefixes, allow_unsafe_jobs, cid, label) ==
    LET parts == split(label.key)
        filter == KeyFilter(parts, prefixes)
    IN  IF filter # "pass" THEN Turn(job_map, "go", filter, NoSeed)
        ELSE IF UnsafeSkipped(allow_unsafe_jobs, parts[2])
        THEN Turn(job_map, "go", "skip_unsafe", NoSeed)
        ELSE Include(job_map, cid, parts[2], parts[3], parts[4], label.value)

\* the labels of the samples
Label(key, value) == [key |-> key, value |-> value]
Key2(a, b) == <<a, Dot, b>>
Key4(a, b, c, d) == <<a, Dot, b, Dot, c, Dot, d>>
Key5(a, b, c, d, e) == <<a, Dot, b, Dot, c, Dot, d, Dot, e>>
Enabled(prefix) == Label(Key2(prefix, "enabled"), "true")

HelloSchedule == Label(Key4("cfc", "job-exec", "hello", "schedule"), "@every 5s")
HelloCommand == Label(Key4("cfc", "job-exec", "hello", "command"), "echo hi")
RunJ == Label(Key4("cfc", "job-run", "j", "schedule"), "@hourly")
ExecJ == Label(Key4("ofelia", "job-exec", "j", "schedule"), "@hourly")
LocalL == Label(Key4("cfc", "job-local", "l", "command"), "date")

LabelPool ==
    { HelloSchedule, HelloCommand, RunJ, ExecJ, LocalL,
      Label(Key4("ofelia", "job-exec", "hello", "command"), "echo hi"),
      Label(Key4("ofelia", "job-exec", "hello", "command"), "echo ho"),
      Label(Key4("cfc", "job-exec", "hello", "environment"), JsonArrayAB),
      Label(Key4("cfc", "job-exec", "hello", "environment"), JsonArrayEmpty),
      Label(Key4("ofelia", "job-exec", "hello", "environment"), JsonArrayAB),
      Label(Key4("ofelia", "job-exec", "hello", "environment"), "A=1"),
      Label(Key4("cfc", "job-exec", "hello", "volume"), JsonArrayMixed),
      Label(Key4("cfc", "job-exec", "hello", "network"), JsonQuoted),
      Label(Key4("cfc", "job-exec", "hello", "network"), JsonCut),
      Label(Key4("cfc", "job-exec", "hello", "user"), ""),
      Label(Key4("cfc", "job-exec", "hello", "container"), "c1"),
      Label(Key5("cfc", "job-exec", "hello", "schedule", "extra"), "x"),
      Label(Key4("foo", "job-exec", "hello", "schedule"), "x"),
      Label(Key4("cfc", "job-exec_a", "b", "schedule"), "@hourly"),
      Label(Key4("cfc", "job-exec", "a_b", "schedule"), "@hourly"),
      Enabled("ofelia") }

\* a container's labels are a map: no key twice
UniqueKeys(ls) == \A a, b \in ls : a.key = b.key => a = b

RECURSIVE LabelSets(_)
LabelSets(n) ==
    IF n = 0 THEN {{}}
    ELSE LET less == LabelSets(n - 1)
         IN  less \cup {s \cup {l} : s \in less, l \in LabelPool}

\* the label sets of the sample container: at most n labels of the pool
SampleLabelSets(n) == {s \in LabelSets(n) : UniqueKeys(s)}

ContainerIds == {"c1", "c2"}

ScanInputs(n) ==
    { [prefixes |-> ps, allow_unsafe_jobs |-> u,
       containers |-> [c \in ContainerIds |->
                          IF c = "c1" THEN {Enabled("cfc")} \cup ls
                          ELSE {Enabled("ofelia")}]] :
        ps \in {<<"cfc">>, <<"cfc", "ofelia">>}, u \in BOOLEAN,
        ls \in SampleLabelSets(n) }

\* the orders in which the daemon may list a set of containers
Orders(ids) ==
    {q \in [1 .. Cardinality(ids) -> ids] : \A c \in ids : \E i \in DOMAIN q : q[i] = c}

\* the containers the filter label={prefix}.enabled=true selects
Listed(containers, prefix) ==
    {c \in DOMAIN containers :
        \E l \in containers[c] :
            Concat(l.key) = prefix \o ".enabled" /\ l.value = "true"}

ScanIdle == [pc |-> "idle"]

ScanStart(in) ==
    [prefixes |-> in.prefixes, allow_unsafe_jobs |-> in.allow_unsafe_jobs,
     containers |-> in.containers,
     pc |-> "prefix", prefix |-> 1, queue |-> <<>>, container_idx |-> {},
     container_id |-> "", todo |-> {}, job_map |-> <<>>, result |-> "none",
     last |-> [note |-> "none"], used |-> {}]

MainIdle ==
    /\ args = [command |-> "validate", docker |-> TRUE]
    /\ input = [readable |-> TRUE, parses |-> TRUE, map |-> <<>>]
    /\ pc = "start"
    /\ exit_code = NoExit
    /\ targets = <<>>
    /\ loops = <<>>
    /\ interrupted = FALSE
    /\ timed = FALSE

MainVars == <<args, input, pc, exit_code, targets, loops, interrupted, timed>>

\* handle.list_containers answers for the current prefix
ScanList ==
    /\ scan.pc = "prefix"
    /\ scan.prefix <= Len(scan.prefixes)
    /\ \E q \in Orders(Listed(scan.containers, scan.prefixes[scan.prefix])) :
         scan' = [scan EXCEPT !.pc = "container", !.queue = q]
    /\ UNCHANGED <<MainVars, dec, sch, rd, file, ex, cli, cr>>

\* handle.list_containers fails
ScanListFails ==
    /\ scan.pc = "prefix"
    /\ scan.prefix <= Len(scan.prefixes)
    /\ scan' = [scan EXCEPT !.pc = "done", !.result = "ErrList"]
    /\ UNCHANGED <<MainVars, dec, sch, rd, file, ex, cli, cr>>

\* the next container of the list, were the containers met before not skipped
ScanContainerAgain ==
    /\ scan.pc = "container"
    /\ scan.queue # <<>>
    /\ LET id == Head(scan.queue)
       IN  IF scan.containers[id] = {}
           THEN scan' = [scan EXCEPT !.queue = Tail(@), !.container_idx = @ \cup {id}]
           ELSE scan' = [scan EXCEPT !.queue = Tail(@), !.container_idx = @ \cup {id},
                                     !.pc = "label", !.container_id = id,
                                     !.todo = scan.containers[id]]
    /\ UNCHANGED <<MainVars, dec, sch, rd, file, ex, cli, cr>>

\* the next container of the list: skipped when seen before or without labels
ScanContainer ==
    /\ scan.pc = "container"
    /\ scan.queue # <<>>
    /\ LET id == Head(scan.queue)
       IN  IF id \in scan.container_idx
           THEN scan' = [scan EXCEPT !.queue = Tail(@)]
           ELSE IF scan.containers[id] = {}
           THEN scan' = [scan EXCEPT !.queue = Tail(@), !.container_idx = @ \cup {id}]
           ELSE scan' = [scan EXCEPT !.queue = Tail(@), !.container_idx = @ \cup {id},
                                     !.pc = "label", !.container_id = id,
                                     !.todo = scan.containers[id]]
    /\ UNCHANGED <<MainVars, dec, sch, rd, file, ex, cli, cr>>

\* the list of the current prefix is exhausted
ScanPrefixDone ==
    /\ scan.pc = "container"
    /\ scan.queue = <<>>
    /\ scan' = [scan EXCEPT !.pc = "prefix", !.prefix = @ + 1]
    /\ UNCHANGED <<MainVars, dec, sch, rd, file, ex, cli, cr>>

\* one label of the current container, in the map's iteration order
ScanLabel ==
    /\ scan.pc = "label"
    /\ \E label \in scan.todo :
         \E t \in {LabelTurn(scan.job_map, scan.prefixes, scan.allow_unsafe_jobs,
                             scan.container_id, label)} :
           LET rest == scan.todo \ {label}
               last == [note |-> t.note, container_id |-> scan.container_id,
                        label |-> label, seed |-> t.seed]
           IN  scan' = [scan EXCEPT
                          !.job_map = t.job_map,
                          !.todo = rest,
                          !.last = last,
                          !.used = IF t.note = "stored" THEN @ \cup {label} ELSE @,
                          !.result = IF t.res = "go" THEN @ ELSE t.res,
                          !.pc = IF t.res # "go" THEN "done"
                                 ELSE IF rest = {} THEN "container" ELSE "label"]
    /\ UNCHANGED <<MainVars, dec, sch, rd, file, ex, cli, cr>>

\* every prefix was handled: Ok(job_map)
ScanReturn ==
    /\ scan.pc = "prefix"
    /\ scan.prefix > Len(scan.prefixes)
    /\ scan' = [scan EXCEPT !.pc = "done", !.result = "Ok"]
    /\ UNCHANGED <<MainVars, dec, sch, rd, file, ex, cli, cr>>

\* ------------------------------------------------ decoder (one entry)

\* an attribute that is absent, or present with one of the lists
Opt(k, lists) == {<<>>} \cup {[x \in {k} |-> l] : l \in lists}

TtyLists == {<<"true">>, <<"false">>, <<"yes">>, <<"True">>}
DeleteLists == {<<"true">>, <<"false">>, <<"no">>}

\* the attribute maps a reader can hand over for one entry
DecInputs(kinds) ==
    { kind @@ schedule @@ command @@ container @@ image @@ tty @@ delete @@ other :
        kind \in Opt("kind", {<<k>> : k \in kinds}),
        schedule \in Opt("schedule", {<<"@every 1s">>, <<"@every 1s", "@every 2s">>,
                                      <<"every now and then">>, <<>>}),
        command \in Opt("command", {<<"date">>, <<"date", "uptime">>}),
        container \in Opt("container", {<<"c1">>, <<"c1", "c2">>}),
        image \in Opt("image", {<<"alpine">>}),
        tty \in Opt("tty", TtyLists),
        delete \in Opt("delete", DeleteLists),
        other \in Opt("user", {<<"root", "bin">>})
                    \cup Opt("dir", {<<>>})
                    \cup Opt("name", {<<"n", "m">>}) }

DecIdle == [pc |-> "idle"]

DecStart(p) == [pc |-> "entry", params |-> p, result |-> [tag |-> "none", jobs |-> <<>>]]

\* map_to_job on a map of the one entry `entry`
DecodeEntry ==
    /\ dec.pc = "entry"
    /\ dec' = [dec EXCEPT !.pc = "done",
                          !.result = map_to_job(<<Entry("entry", dec.params)>>)]
    /\ UNCHANGED <<MainVars, scan, sch, rd, file, ex, cli, cr>>

\* ------------------------------------------------------- schedule_to_cron

(* A schedule text is a sequence of pieces: a whitespace character, a     *)
(* decimal digit, or a word that holds neither.                           *)
WhiteSpace == {" ", "\t"}

DigitChars == <<"0", "1", "2", "3", "4", "5", "6", "7", "8", "9">>
Digits == {DigitChars[i] : i \in 1..10}
DigitVal(d) == (CHOOSE i \in 1..10 : DigitChars[i] = d) - 1

\* str::trim
RECURSIVE TrimStart(_)
TrimStart(s) ==
    IF s # <<>> /\ Head(s) \in WhiteSpace THEN TrimStart(Tail(s)) ELSE s

RECURSIVE TrimEnd(_)
TrimEnd(s) ==
    IF s # <<>> /\ s[Len(s)] \in WhiteSpace THEN TrimEnd(SubSeq(s, 1, Len(s) - 1)) ELSE s

trim(s) == TrimEnd(TrimStart(s))

\* the longest run of pieces of `set` that s starts with
RECURSIVE RunOf(_, _)
RunOf(s, set) ==
    IF s # <<>> /\ Head(s) \in set THEN <<Head(s)>> \o RunOf(Tail(s), set) ELSE <<>>

Drop(s, n) == SubSeq(s, n + 1, Len(s))

Units == {"s", "m", "h"}

\* the regex ^@every\s+(?<interval>[0-9]+)(?<unit>s|m|h)$ on a text
EveryCaptures(s) ==
    IF s = <<>> \/ Head(s) # "@every" THEN [matches |-> FALSE]
    ELSE LET space == RunOf(Tail(s), WhiteSpace)
             after == Drop(Tail(s), Len(space))
             interval == RunOf(after, Digits)
             rest == Drop(after, Len(interval))
         IN  IF space # <<>> /\ interval # <<>> /\ Len(rest) = 1 /\ rest[1] \in Units
             THEN [matches |-> TRUE, interval |-> interval, unit |-> rest[1]]
             ELSE [matches |-> FALSE]

\* the largest i32
MaxI32 == 2147483647

\* str::parse::<i32> of a run of digits: the value, or an overflow error
RECURSIVE ParseI32(_, _)
ParseI32(digits, acc) ==
    IF digits = <<>> THEN [ok |-> TRUE, value |-> acc]
    ELSE LET d == DigitVal(Head(digits))
         IN  IF acc > (MaxI32 - d) \div 10 THEN [ok |-> FALSE]
             ELSE ParseI32(Tail(digits), acc * 10 + d)

\* format!("{}", interval) of an i32 that is not negative
RECURSIVE Decimal(_)
Decimal(n) ==
    IF n < 10 THEN <<DigitChars[n + 1]>>
    ELSE Decimal(n \div 10) \o <<DigitChars[(n % 10) + 1]>>

Star == <<" ", "*">>

\* the three format! patterns of the units
Expansion(unit, n) ==
    CASE unit = "s" -> <<"*/">> \o n \o Star \o Star \o Star \o Star \o Star
      [] unit = "m" -> <<"0", " ", "*/">> \o n \o Star \o Star \o Star \o Star
      [] unit = "h" -> <<"0", " ", "0", " ", "*/">> \o n \o Star \o Star \o Star

\* the fields of a pattern: the runs between whitespace
RECURSIVE Fields(_)
Fields(s) ==
    LET t == TrimStart(s)
    IN  IF t = <<>> THEN <<>>
        ELSE LET f == RunOf(t, {t[i] : i \in 1..Len(t)} \ WhiteSpace)
             IN  <<f>> \o Fields(Drop(t, Len(f)))

Nicknames == {"@yearly", "@annually", "@monthly", "@weekly", "@daily", "@hourly"}

\* one field of a pattern: a star, a number, or a step that is not zero
FieldParses(f) ==
    \/ f = <<"*">>
    \/ f # <<>> /\ RunOf(f, Digits) = f /\ ParseI32(f, 0).ok
    \/ /\ Len(f) > 1 /\ Head(f) = "*/" /\ RunOf(Tail(f), Digits) = Tail(f)
       /\ ParseI32(Tail(f), 0).ok /\ ParseI32(Tail(f), 0).value > 0

\* Cron::new(text).with_seconds_optional().parse(): a nickname, or five or
\* six fields that parse
CronParses(text) ==
    LET fs == Fields(text)
    IN  \/ Len(fs) = 1 /\ Len(fs[1]) = 1 /\ fs[1][1] \in Nicknames
        \/ Len(fs) \in {5, 6} /\ \A i \in 1..Len(fs) : FieldParses(fs[i])

\* schedule_to_cron of job/common.rs, which job/mod.rs repeats line by line:
\* Ok with the Cron of the pattern, Err, or a panic on an interval beyond i32
common_schedule_to_cron(text) ==
    LET sched == trim(text)
        caps == EveryCaptures(sched)
    IN  IF caps.matches /\ ~ParseI32(caps.interval, 0).ok THEN [tag |-> "Panic"]
        ELSE LET pattern == IF caps.matches
                            THEN Expansion(caps.unit,
                                           Decimal(ParseI32(caps.interval, 0).value))
                            ELSE sched
             IN  IF CronParses(pattern) THEN [tag |-> "Ok", pattern |-> pattern]
                 ELSE [tag |-> "Err", pattern |-> pattern]

\* sample texts
Ten == <<"1", "0">>
MaxDigits == <<"2", "1", "4", "7", "4", "8", "3", "6", "4", "7">>
OverDigits == <<"2", "1", "4", "7", "4", "8", "3", "6", "4", "8">>
DigitSamples == {Ten, <<"5">>, <<"0">>, <<"0", "1", "0">>, MaxDigits, OverDigits,
                 <<"0">> \o OverDigits, MaxDigits \o <<"0">>}

Every(space, digits, unit) == <<"@every">> \o space \o digits \o <<unit>>

EverySamples ==
    { Every(space, digits, unit) :
        space \in {<<" ">>, <<" ", "\t">>},
        digits \in DigitSamples,
        unit \in Units \cup {"d"} }

NearSamples ==
    { <<"@every">> \o Ten \o <<"s">>,
      <<"@every", " ", "s">>,
      <<"@every", " ">> \o Ten,
      <<"@every", " ">> \o Ten \o <<" ", "s">>,
      <<"@every", " ">> \o Ten \o <<"s", " ", "x">>,
      <<"@every", " ">> \o Ten \o <<"s", "s">>,
      <<"@Every", " ">> \o Ten \o <<"s">>,
      <<"x", " ", "@every", " ">> \o Ten \o <<"s">>,
      <<"@every", " ", "-">> \o Ten \o <<"s">> }

PatternSamples ==
    { Expansion(u, Ten) : u \in Units }
    \cup { <<"@hourly">>, <<"@daily">>, <<>>,
           <<"*">> \o Star \o Star \o Star \o Star,
           <<"*">> \o Star \o Star \o Star,
           <<"0", " ", "0", " ", "0", " ", "3", "0", " ", "2">> \o Star,
           <<"*/", "0">> \o Star \o Star \o Star \o Star \o Star,
           <<"every", " ", "now", " ", "and", " ", "then">> }

Margins == {<<>>, <<" ">>, <<"\t", " ">>}

ScheduleInputs ==
    { lead \o body \o trail :
        lead \in Margins, trail \in Margins,
        body \in EverySamples \cup NearSamples \cup PatternSamples }

SchStart(text) == [pc |-> "call", text |-> text, result |-> [tag |-> "none"]]

ScheduleToCron ==
    /\ sch.pc = "call"
    /\ sch' = [sch EXCEPT !.pc = "done", !.result = common_schedule_to_cron(sch.text)]
    /\ UNCHANGED <<MainVars, scan, dec, rd, file, ex, cli, cr>>

\* ---------------------------------------------------------------- parse_ini

(* The payload is the sequence of items that ini_core's Parser yields for *)
(* it. The texts of the items are sequences of pieces, as the schedules.  *)
Quote == "\""

Section(text) == [type |-> "Section", text |-> text]
SectionEnd == [type |-> "SectionEnd"]
\* a property with a value (Some) or without one (None)
Property(k, v) == [type |-> "Property", key |-> k, value |-> <<v>>]
PropertyNoValue(k) == [type |-> "Property", key |-> k, value |-> <<>>]
Comment == [type |-> "Comment"]
Blank == [type |-> "Blank"]
ItemError == [type |-> "Error"]

\* the regex ^(?<kind>[^\s]+)\s*"(?<name>[^"]+)"$ on a section text: the name
\* lies between the last two quotes, the kind is all that precedes the
\* white space before them
SectionCaptures(s) ==
    LET n == Len(s)
        opens == {j \in 2..(n - 2) : s[j] = Quote /\ \A i \in (j + 1)..(n - 1) : s[i] # Quote}
    IN  IF n < 4 \/ s[n] # Quote \/ opens = {} THEN [matches |-> FALSE]
        ELSE LET j == CHOOSE x \in opens : TRUE
                 before == SubSeq(s, 1, j - 1)
                 kind == RunOf(before, {before[i] : i \in 1..Len(before)} \ WhiteSpace)
                 space == Drop(before, Len(kind))
             IN  IF kind # <<>> /\ RunOf(space, WhiteSpace) = space
                 THEN [matches |-> TRUE, kind |-> Concat(kind),
                       name |-> Concat(SubSeq(s, j + 1, n - 1))]
                 ELSE [matches |-> FALSE]

\* format!("{} \"{}\"", section_kind, section_name)
SectionKey(kind, name) == kind \o " " \o Quote \o name \o Quote

\* Vec::push
PushFront(list, v) == <<v>> \o list
Push(list, v) == Append(list, v)

ReaderErr(st) == [st EXCEPT !.pc = "done", !.result = [tag |-> "Err"]]

\* the arm of Item::Section
ini_section(st, text) ==
    LET trimmed == Concat(trim(text))
        c == SectionCaptures(trim(text))
    IN  IF ~c.matches
        THEN IF trimmed = "global"
             THEN [st EXCEPT !.current_section = trimmed,
                             !.current_data = Insert(st.current_data, trimmed, <<>>)]
             ELSE ReaderErr(st)
        ELSE LET key == SectionKey(c.kind, c.name)
             IN  IF key \in DOMAIN st.current_data
                 THEN [st EXCEPT !.current_section = key]
                 ELSE [st EXCEPT !.current_section = key,
                                 !.current_data =
                                     Insert(st.current_data, key,
                                            [x \in {"kind", "name"} |->
                                                IF x = "kind" THEN <<c.kind>>
                                                ELSE <<c.name>>])]

\* the arm of Item::Property
ini_property(st, key, value) ==
    LET k == Concat(trim(key))
    IN  IF st.current_section = "" THEN ReaderErr(st)
        ELSE IF value = <<>> THEN st
        ELSE LET section_info == st.current_data[st.current_section]
                 list == IF k \in DOMAIN section_info THEN section_info[k] ELSE <<>>
             IN  [st EXCEPT !.current_data =
                     Insert(st.current_data, st.current_section,
                            Insert(section_info, k, Push(list, Concat(trim(value[1])))))]

\* the body of the while loop for one item
ini_item(st, item) ==
    CASE item.type = "Error"      -> ReaderErr(st)
      [] item.type = "Section"    -> ini_section(st, item.text)
      [] item.type = "SectionEnd" -> [st EXCEPT !.current_section = ""]
      [] item.type = "Property"   -> ini_property(st, item.key, item.value)
      [] OTHER                    -> st

IniStart(items) ==
    [reader |-> "ini", pc |-> "read", payload |-> items, items |-> items,
     current_section |-> "", current_data |-> <<>>, result |-> [tag |-> "none"]]

\* one turn of the loop: the parser's next item, or its end
ini_turn(st) ==
    IF st.items = <<>>
    THEN [st EXCEPT !.pc = "done", !.result = [tag |-> "Ok", data |-> st.current_data]]
    ELSE ini_item([st EXCEPT !.items = Tail(st.items)], Head(st.items))

RECURSIVE ini_run(_)
ini_run(st) == IF st.pc = "done" THEN st.result ELSE ini_run(ini_turn(st))

parse_ini(items) == ini_run(IniStart(items))

\* sample items
HeaderExecJ == <<"job-exec", " ", Quote, "j", Quote>>
HeaderLocalL == <<"job-local", " ", Quote, "l", Quote>>

ItemPool ==
    { Section(HeaderExecJ),
      Section(<<" ">> \o HeaderExecJ \o <<"\t">>),
      Section(<<"job-exec", Quote, "my", " ", "job", Quote>>),
      Section(HeaderLocalL),
      Section(<<"global">>),
      Section(<<"job-exec", " ", "j">>),
      SectionEnd,
      Property(<<"environment">>, <<"A=1">>),
      Property(<<"environment">>, <<"B=2">>),
      Property(<<" ", "environment">>, <<"A=1", " ">>),
      Property(<<"schedule">>, <<"@hourly">>),
      PropertyNoValue(<<"command">>),
      Comment, Blank, ItemError }

\* the payloads: at most n items
IniPayloads(n) == UNION {[1..k -> ItemPool] : k \in 0..n}

IniNext ==
    /\ rd.pc = "read" /\ rd.reader = "ini"
    /\ rd.items # <<>>
    /\ rd' = ini_turn(rd)
    /\ UNCHANGED <<MainVars, scan, dec, sch, file, ex, cli, cr>>

IniEnd ==
    /\ rd.pc = "read" /\ rd.reader = "ini"
    /\ rd.items = <<>>
    /\ rd' = ini_turn(rd)
    /\ UNCHANGED <<MainVars, scan, dec, sch, file, ex, cli, cr>>

\* --------------------------------------------------------------- parse_yaml

(* The payload is the sequence of events that saphyr_parser yields for it, *)
(* an Error standing for a token that is_err.                              *)
Scalar(v) == [type |-> "Scalar", value |-> v]
Event(t) == [type |-> t]

ReaderPanic(st) == [st EXCEPT !.pc = "done", !.result = [tag |-> "Panic"]]

\* the arm of Event::Scalar
yaml_scalar(st, value) ==
    CASE st.current_depth = 0 ->
            IF st.current_job_name # "" THEN ReaderErr(st)
            ELSE IF value \in DOMAIN st.current_data THEN st
            ELSE [st EXCEPT !.current_data = Insert(st.current_data, value, <<>>)]
      [] st.current_depth = 1 ->
            IF st.current_job_name \notin DOMAIN st.current_data THEN ReaderPanic(st)
            ELSE LET current_subdict == st.current_data[st.current_job_name]
                 IN  IF st.current_job_key = ""
                     THEN IF value \in DOMAIN current_subdict THEN st
                          ELSE [st EXCEPT !.current_data =
                                   Insert(st.current_data, st.current_job_name,
                                          Insert(current_subdict, value, <<>>))]
                     ELSE IF st.current_job_key \notin DOMAIN current_subdict
                     THEN ReaderPanic(st)
                     ELSE [st EXCEPT !.current_data =
                              Insert(st.current_data, st.current_job_name,
                                     Insert(current_subdict, st.current_job_key,
                                            Push(current_subdict[st.current_job_key],
                                                 value)))]
      [] OTHER -> ReaderErr(st)

\* the arm of Event::MappingStart
yaml_mapping_start(st) ==
    LET depth == st.current_depth + 1
        deeper == [st EXCEPT !.current_depth = depth]
    IN  CASE depth = 0 -> deeper
          [] depth = 1 -> IF st.current_job_name # "" THEN deeper ELSE ReaderPanic(deeper)
          [] OTHER     -> ReaderErr(deeper)

\* the arm of Event::MappingEnd
yaml_mapping_end(st) ==
    LET depth == st.current_depth - 1
    IN  CASE depth = 0 -> [st EXCEPT !.current_depth = depth, !.current_job_key = ""]
          [] depth = 1 -> [st EXCEPT !.current_depth = depth, !.current_job_name = ""]
          [] OTHER     -> [st EXCEPT !.current_depth = depth]

\* the body of the while loop for one token
yaml_event(st, ev) ==
    CASE ev.type = "Error"         -> ReaderErr(st)
      [] ev.type = "Scalar"        -> yaml_scalar(st, ev.value)
      [] ev.type = "SequenceStart" ->
            IF st.current_depth # 1 \/ st.is_vec_context THEN ReaderErr(st)
            ELSE [st EXCEPT !.is_vec_context = TRUE]
      [] ev.type = "SequenceEnd"   -> [st EXCEPT !.is_vec_context = FALSE]
      [] ev.type = "MappingStart"  -> yaml_mapping_start(st)
      [] ev.type = "MappingEnd"    -> yaml_mapping_end(st)
      [] ev.type = "StreamEnd"     ->
            [st EXCEPT !.pc = "done", !.result = [tag |-> "Ok", data |-> st.current_data]]
      [] OTHER                     -> st

YamlStart(payload, events) ==
    [reader |-> "yaml", pc |-> "read", payload |-> payload, items |-> events,
     current_depth |-> 0 - 1, is_vec_context |-> FALSE,
     current_job_name |-> "", current_job_key |-> "",
     current_data |-> <<>>, result |-> [tag |-> "none"]]

\* one turn of the loop: the parser's next token, or its end
yaml_turn(st) ==
    IF st.items = <<>> THEN ReaderErr(st)
    ELSE yaml_event([st EXCEPT !.items = Tail(st.items)], Head(st.items))

RECURSIVE yaml_run(_)
yaml_run(st) == IF st.pc = "done" THEN st.result ELSE yaml_run(yaml_turn(st))

parse_yaml(events) == yaml_run(YamlStart(<<>>, events))

\* sample documents: jobs of attributes, an attribute being a scalar or a
\* sequence of scalars
Attr(k, values, seq) == [key |-> k, values |-> values, seq |-> seq]

AttrPool ==
    { Attr("kind", <<"job-exec">>, FALSE),
      Attr("schedule", <<"@hourly">>, FALSE),
      Attr("environment", <<"A=1", "B=2">>, TRUE),
      Attr("environment", <<"A=1">>, TRUE),
      Attr("network", <<>>, TRUE) }

RECURSIVE Scalars(_)
Scalars(values) ==
    IF values = <<>> THEN <<>> ELSE <<Scalar(Head(values))>> \o Scalars(Tail(values))

AttrEvents(a) ==
    <<Scalar(a.key)>> \o
    (IF a.seq THEN <<Event("SequenceStart")>> \o Scalars(a.values) \o <<Event("SequenceEnd")>>
     ELSE Scalars(a.values))

RECURSIVE AttrsEvents(_)
AttrsEvents(attrs) ==
    IF attrs = <<>> THEN <<>> ELSE AttrEvents(Head(attrs)) \o AttrsEvents(Tail(attrs))

JobEvents(job) ==
    <<Scalar(job.name), Event("MappingStart")>> \o AttrsEvents(job.attrs)
        \o <<Event("MappingEnd")>>

RECURSIVE JobsEvents(_)
JobsEvents(jobs) ==
    IF jobs = <<>> THEN <<>> ELSE JobEvents(Head(jobs)) \o JobsEvents(Tail(jobs))

Document(body) ==
    <<Event("StreamStart"), Event("DocumentStart")>> \o body
        \o <<Event("DocumentEnd"), Event("StreamEnd")>>

\* the events of a mapping of job names to attribute mappings
JobsDocument(jobs) ==
    Document(<<Event("MappingStart")>> \o JobsEvents(jobs) \o <<Event("MappingEnd")>>)

\* the jobs of the sample documents: lists of at most n attributes with
\* distinct keys
AttrLists(n) ==
    { l \in UNION {[1..k -> AttrPool] : k \in 0..n} :
        \A i, j \in 1..Len(l) : i # j => l[i].key # l[j].key }

YamlJobs(n) ==
    { <<[name |-> "j", attrs |-> l]>> : l \in AttrLists(n) }
    \cup { <<[name |-> "j", attrs |-> l], [name |-> "k", attrs |-> <<>>]>> :
             l \in AttrLists(n) }
    \cup { <<>> }

\* documents of another shape, and streams that end early
OtherDocuments ==
    { <<Event("StreamStart"), Event("StreamEnd")>>,
      <<Event("StreamStart"), Event("Error")>>,
      <<Event("StreamStart"), Event("DocumentStart"), Event("MappingStart")>>,
      Document(<<Scalar("a")>>),
      Document(<<Event("SequenceStart"), Scalar("a"), Event("SequenceEnd")>>),
      Document(<<Event("MappingStart"), Scalar("a"), Scalar("b"), Event("MappingEnd")>>),
      Document(<<Event("MappingStart"), Scalar("a"), Event("Alias"), Event("MappingEnd")>>),
      Document(<<Event("MappingStart"), Scalar("a"),
                 Event("SequenceStart"), Scalar("b"), Event("SequenceEnd"),
                 Event("MappingEnd")>>) }

JobsShape(jobs) == [shape |-> "jobs", jobs |-> jobs]
OtherShape == [shape |-> "other"]

YamlStarts(n) ==
    { YamlStart(JobsShape(jobs), JobsDocument(jobs)) : jobs \in YamlJobs(n) }
    \cup { YamlStart(OtherShape, events) : events \in OtherDocuments }

YamlNext ==
    /\ rd.pc = "read" /\ rd.reader = "yaml"
    /\ rd.items # <<>>
    /\ rd' = yaml_turn(rd)
    /\ UNCHANGED <<MainVars, scan, dec, sch, file, ex, cli, cr>>

YamlEnd ==
    /\ rd.pc = "read" /\ rd.reader = "yaml"
    /\ rd.items = <<>>
    /\ rd' = yaml_turn(rd)
    /\ UNCHANGED <<MainVars, scan, dec, sch, file, ex, cli, cr>>

\* ----------------------------------------------------------------- load_file

\* str::to_lowercase on the extensions of the sample paths
to_lowercase(s) ==
    CASE s = "INI"  -> "ini"
      [] s = "Yaml" -> "yaml"
      [] s = "YML"  -> "yml"
      [] OTHER      -> s

\* path.split(".").last().unwrap().to_lowercase()
Extension(path) == to_lowercase(Last(split(path)))

\* Result::or_else: the first success stands, a failure gives way to the reader
or_else(r, reader) == IF r.tag = "Ok" THEN r ELSE reader

\* the two tests of load_file_content
UsesIniAlways(ext) == TRUE
UsesIni(ext) == ext = "ini" \/ ext \notin {"yaml", "yml"}

UsesYaml(ext) == ext \in {"yaml", "yml"} \/ ext # "ini"

\* load_file_content: the result, and the readers it called in their order
load_file_content(content, ext) ==
    LET r == [tag |-> "Err"]
        ini == UsesIni(ext) /\ r.tag # "Ok"
        r1 == IF UsesIni(ext) THEN or_else(r, parse_ini(content.ini)) ELSE r
        yaml == r1.tag # "Panic" /\ UsesYaml(ext) /\ r1.tag # "Ok"
        r2 == IF r1.tag # "Panic" /\ UsesYaml(ext)
              THEN or_else(r1, parse_yaml(content.yaml)) ELSE r1
    IN  [r |-> r2,
         tried |-> (IF ini THEN <<"ini">> ELSE <<>>) \o (IF yaml THEN <<"yaml">> ELSE <<>>)]

\* the entries of a map in one of the orders a HashMap may iterate in
Entries(data, order) == [i \in 1..Len(order) |-> Entry(order[i], data[order[i]])]

\* sample paths
Paths ==
    { <<"cfc", Dot, "ini">>, <<"cfc", Dot, "INI">>, <<"cfc", Dot, "yaml">>,
      <<"cfc", Dot, "yml">>, <<"cfc", Dot, "Yaml">>, <<"cfc", Dot, "YML">>,
      <<"cfc", Dot, "conf">>, <<"cfc">>, <<"cfc", Dot>>,
      <<"cfc", Dot, "ini", Dot, "bak">>, <<"cfc", Dot, "yaml", Dot, "ini">> }

\* the job of the crate documentation, in both syntaxes
ExampleName == "job-executed-on-running-container"

ExampleIni ==
    << Section(<<"job-exec", " ", Quote, ExampleName, Quote>>),
       Property(<<"schedule", " ">>, <<" ", "@hourly">>),
       Property(<<"container", " ">>, <<" ", "my-container">>),
       Property(<<"command", " ">>, <<" ", "touch /tmp/cfc">>),
       SectionEnd >>

ExampleYaml ==
    JobsDocument(<< [name |-> ExampleName,
                     attrs |-> << Attr("kind", <<"job-exec">>, FALSE),
                                  Attr("schedule", <<"@hourly">>, FALSE),
                                  Attr("container", <<"my-container">>, FALSE),
                                  Attr("command", <<"touch /tmp/cfc">>, FALSE) >>] >>)

LocalSection(name) ==
    << Section(<<"job-local", " ", Quote, name, Quote>>),
       Property(<<"schedule">>, <<"@every 1s">>),
       Property(<<"command">>, <<"date">>),
       SectionEnd >>

\* a section with a property named kind, and one with a property named name
KindSection ==
    << Section(<<"job-exec", " ", Quote, "e", Quote>>),
       Property(<<"schedule">>, <<"@every 1s">>),
       Property(<<"command">>, <<"date">>),
       Property(<<"container">>, <<"c1">>),
       Property(<<"kind">>, <<"job-local">>),
       SectionEnd >>

NameSection ==
    << Section(<<"job-local", " ", Quote, "a", Quote>>),
       Property(<<"schedule">>, <<"@every 1s">>),
       Property(<<"name">>, <<"b">>),
       Property(<<"command">>, <<"date">>),
       SectionEnd >>

\* what ini_core yields for the sample payloads
IniViews ==
    { ExampleIni, KindSection, NameSection,
      <<>>,
      <<ItemError>>,
      <<PropertyNoValue(<<"j:">>), PropertyNoValue(<<"kind:", " ", "job-local">>)>>,
      <<Section(<<"global">>), Property(<<"log">>, <<"debug">>), SectionEnd>>
          \o LocalSection("a") \o LocalSection("b"),
      LocalSection("a") \o <<Section(<<"job-exec", " ", Quote, "e", Quote>>),
                             Property(<<"schedule">>, <<"@every 1s">>),
                             Property(<<"command">>, <<"date">>),
                             SectionEnd>> }

\* what saphyr_parser yields for the sample payloads
YamlViews ==
    { ExampleYaml,
      <<Event("StreamStart"), Event("Error")>>,
      <<Event("StreamStart"), Event("StreamEnd")>>,
      Document(<<Event("SequenceStart"), Scalar("job-exec"), Event("SequenceEnd")>>),
      Document(<<Event("MappingStart"), Scalar("a"), Scalar("b"), Event("MappingEnd")>>) }

Contents ==
    { [readable |-> FALSE, utf8 |-> FALSE, ini |-> <<>>, yaml |-> <<>>],
      [readable |-> TRUE, utf8 |-> FALSE, ini |-> <<>>, yaml |-> <<>>] }
    \cup [readable : {TRUE}, utf8 : {TRUE}, ini : IniViews, yaml : YamlViews]

FileStart(path, content) ==
    [pc |-> "read", path |-> path, content |-> content, ext |-> "",
     r |-> [tag |-> "none"], tried |-> <<>>, map |-> <<>>, result |-> [tag |-> "none"]]

FileErr == [tag |-> "Err", jobs |-> <<>>]
FilePanic == [tag |-> "Panic", jobs |-> <<>>]

\* fs::read and String::from_utf8
FileRead ==
    /\ file.pc = "read"
    /\ file' = IF file.content.readable /\ file.content.utf8
               THEN [file EXCEPT !.pc = "content"]
               ELSE [file EXCEPT !.pc = "done", !.result = FileErr]
    /\ UNCHANGED <<MainVars, scan, dec, sch, rd, ex, cli, cr>>

\* load_file_content on the extension of the path
FileContent ==
    /\ file.pc = "content"
    /\ LET ext == Extension(file.path)
           c == load_file_content(file.content, ext)
           called == [file EXCEPT !.ext = ext, !.r = c.r, !.tried = c.tried]
       IN  file' = CASE c.r.tag = "Ok" ->
                          [called EXCEPT !.pc = "decode", !.map = c.r.data]
                     [] c.r.tag = "Err" ->
                          [called EXCEPT !.pc = "done", !.result = FileErr]
                     [] OTHER ->
                          [called EXCEPT !.pc = "done", !.result = FilePanic]
    /\ UNCHANGED <<MainVars, scan, dec, sch, rd, ex, cli, cr>>

\* map.remove("global") and map_to_job
FileDecode ==
    /\ file.pc = "decode"
    /\ LET map == Remove(file.map, "global")
       IN  \E order \in Orders(DOMAIN map) :
              file' = [file EXCEPT !.pc = "done",
                                   !.result = map_to_job(Entries(map, order))]
    /\ UNCHANGED <<MainVars, scan, dec, sch, rd, ex, cli, cr>>

\* ----------------------------------------------------------- ExecJobInfo::exec

\* Option: None and Some(v)
None == <<>>
Some(v) == <<v>>

\* ExecutionReport::default()
DefaultReport == [retval |-> 0, stdout |-> None, stderr |-> None]

\* a frame of the output stream: its tag, its bytes as text, and whether
\* the bytes are UTF-8
Frame(kind, message, utf8) == [kind |-> kind, message |-> message, utf8 |-> utf8]

FramePool ==
    { Frame("StdOut", "a", TRUE), Frame("StdOut", "", TRUE), Frame("StdOut", "x", FALSE),
      Frame("StdErr", "e", TRUE), Frame("StdErr", "", TRUE),
      Frame("StdIn", "i", TRUE), Frame("StdIn", "y", FALSE),
      Frame("Console", "c", TRUE) }

\* the string a frame is added to
FrameTargetNoConsole(kind) ==
    CASE kind = "StdErr" -> "stderr"
      [] kind = "StdOut" -> "stdout"
      [] OTHER -> "none"
FrameTarget(kind) ==
    CASE kind = "StdErr" -> "stderr"
      [] kind \in {"StdOut", "Console"} -> "stdout"
      [] OTHER -> "none"

\* the for loop of exhaust_stream over the collected frames
RECURSIVE Gather(_, _, _)
Gather(l, stdout, stderr) ==
    IF l = <<>> THEN [ok |-> TRUE, stdout |-> stdout, stderr |-> stderr]
    ELSE LET f == Head(l)
             target == FrameTarget(f.kind)
         IN  IF target # "none" /\ ~f.utf8 THEN [ok |-> FALSE]
             ELSE IF target = "stdout" THEN Gather(Tail(l), stdout \o f.message, stderr)
             ELSE IF target = "stderr" THEN Gather(Tail(l), stdout, stderr \o f.message)
             ELSE Gather(Tail(l), stdout, stderr)

\* exhaust_stream once the stream has ended with the frames l
exhaust_stream(report, l) ==
    IF report.stdout # None \/ report.stderr # None THEN [tag |-> "Err", report |-> report]
    ELSE LET g == Gather(l, "", "")
         IN  IF ~g.ok THEN [tag |-> "Err", report |-> report]
             ELSE [tag |-> "Ok",
                   report |-> [report EXCEPT
                                 !.stdout = IF g.stdout # "" THEN Some(g.stdout) ELSE @,
                                 !.stderr = IF g.stderr # "" THEN Some(g.stderr) ELSE @]]

\* what inspect_exec answers: an error, or a response whose running and
\* exit_code are options
InspectAnswers ==
    { [ok |-> FALSE] }
    \cup [ok : {TRUE}, running : {None, Some(TRUE), Some(FALSE)},
          exit_code : {None, Some(0), Some(1)}]

\* result.running.unwrap()
StillRunningNever(response) == FALSE
StillRunning(response) == response.running[1]

\* ingest_exec_inspect
ingest_exec_inspect(report, response) ==
    IF response.running = None THEN [tag |-> "Panic"]
    ELSE IF StillRunning(response) THEN [tag |-> "Err"]
    ELSE IF response.exit_code = None THEN [tag |-> "Panic"]
    ELSE [tag |-> "Ok", report |-> [report EXCEPT !.retval = response.exit_code[1]]]

ExStart ==
    [pc |-> "create", calls |-> <<>>, stream |-> "none", l |-> <<>>,
     answer |-> [ok |-> FALSE], report |-> DefaultReport, result |-> [tag |-> "none"]]

ExDone(st, tag) == [st EXCEPT !.pc = "done", !.result = [tag |-> tag]]

\* shell_words::split(command).unwrap() on a command that does not split
ExecCommandPanics ==
    /\ ex.pc = "create"
    /\ ex' = ExDone(ex, "Panic")
    /\ UNCHANGED <<MainVars, scan, dec, sch, rd, file, cli, cr>>

\* handle.create_exec
ExecCreate ==
    /\ ex.pc = "create"
    /\ \E ok \in BOOLEAN :
          LET called == [ex EXCEPT !.calls = Append(@, "create_exec")]
          IN  ex' = IF ok THEN [called EXCEPT !.pc = "start"] ELSE ExDone(called, "Err")
    /\ UNCHANGED <<MainVars, scan, dec, sch, rd, file, cli, cr>>

\* handle.start_exec with detach: false
ExecStart ==
    /\ ex.pc = "start"
    /\ \E ok \in BOOLEAN :
          LET called == [ex EXCEPT !.calls = Append(@, "start_exec")]
          IN  ex' = IF ok THEN [called EXCEPT !.pc = "drain", !.stream = "open"]
                    ELSE ExDone(called, "Err")
    /\ UNCHANGED <<MainVars, scan, dec, sch, rd, file, cli, cr>>

\* try_collect takes one more frame of the stream
ExecFrame ==
    /\ ex.pc = "drain"
    /\ Len(ex.l) < MaxFrames
    /\ \E f \in FramePool : ex' = [ex EXCEPT !.l = Append(@, f)]
    /\ UNCHANGED <<MainVars, scan, dec, sch, rd, file, cli, cr>>

\* the stream yields an error: try_collect returns it
ExecStreamError ==
    /\ ex.pc = "drain"
    /\ ex' = ExDone([ex EXCEPT !.stream = "error"], "Err")
    /\ UNCHANGED <<MainVars, scan, dec, sch, rd, file, cli, cr>>

\* the stream ends: exhaust_stream gathers the frames into the report
ExecStreamEnd ==
    /\ ex.pc = "drain"
    /\ LET ended == [ex EXCEPT !.stream = "ended"]
           r == exhaust_stream(ex.report, ex.l)
       IN  ex' = IF r.tag = "Ok" THEN [ended EXCEPT !.pc = "inspect", !.report = r.report]
                 ELSE ExDone(ended, "Err")
    /\ UNCHANGED <<MainVars, scan, dec, sch, rd, file, cli, cr>>

\* handle.inspect_exec and ingest_exec_inspect
ExecInspect ==
    /\ ex.pc = "inspect"
    /\ \E answer \in InspectAnswers :
          LET called == [ex EXCEPT !.calls = Append(@, "inspect_exec"), !.answer = answer]
          IN  ex' = IF ~answer.ok THEN ExDone(called, "Err")
                    ELSE LET r == ingest_exec_inspect(ex.report, answer)
                         IN  IF r.tag = "Ok"
                             THEN [called EXCEPT !.pc = "done", !.report = r.report,
                                                 !.result = [tag |-> "Ok",
                                                             report |-> r.report]]
                             ELSE ExDone(called, r.tag)
    /\ UNCHANGED <<MainVars, scan, dec, sch, rd, file, cli, cr>>

\* ------------------------------ LocalJobInfo::exec, RunJobInfo::exec

(* An environment entry is a sequence of pieces: the character '=' or a   *)
(* word that holds none.                                                   *)
Equals == "="

\* str::split(sep): the texts between the separators, at least one
RECURSIVE split_on(_, _)
split_on(s, sep) ==
    LET hits == {i \in 1..Len(s) : s[i] = sep}
    IN  IF hits = {} THEN <<Concat(s)>>
        ELSE LET i == CHOOSE h \in hits : \A g \in hits : h <= g
             IN  <<Concat(SubSeq(s, 1, i - 1))>> \o split_on(Drop(s, i), sep)

\* [&str]::join(sep)
RECURSIVE join(_, _)
join(list, sep) ==
    IF list = <<>> THEN ""
    ELSE IF Len(list) = 1 THEN list[1]
    ELSE list[1] \o sep \o join(Tail(list), sep)

\* env_info.collect::<Vec<_>>().join(".") once the key is taken
EnvValueRejoined(env_info) == join(Tail(env_info), Equals)
EnvValue(env_info) == join(Tail(env_info), ".")

EnvPool ==
    { <<"A", Equals, "b", Equals, "c">>, <<"A", Equals, "b">>, <<"A">>, <<>>,
      <<"B", Equals>>, <<Equals, "x">>, <<"B", Equals, Equals, "c">> }

EnvLists(n) == UNION {[1..k -> EnvPool] : k \in 0..n}

LocalStart(environment) ==
    [job |-> "job-local", pc |-> "env", environment |-> environment, env |-> <<>>,
     result |-> [tag |-> "none"]]

RunStart(kind, delete) ==
    [job |-> kind, pc |-> "exec", delete |-> delete, calls |-> <<>>,
     result |-> [tag |-> "none"]]

\* one turn of `for e in self.environment`
LocalEnv ==
    /\ ex.pc = "env"
    /\ ex.environment # <<>>
    /\ LET env_info == split_on(Head(ex.environment), Equals)
       IN  ex' = IF env_info # <<>>
                 THEN [ex EXCEPT !.environment = Tail(@),
                                 !.env = Insert(@, Head(env_info), EnvValue(env_info))]
                 ELSE ExDone(ex, "Err")
    /\ UNCHANGED <<MainVars, scan, dec, sch, rd, file, cli, cr>>

\* command.output(): the command does not start, ends with an exit code, or
\* is ended by a signal (status.code() is None and its unwrap panics)
LocalOutput ==
    /\ ex.pc = "env"
    /\ ex.environment = <<>>
    /\ \/ ex' = ExDone(ex, "Err")
       \/ ex' = ExDone(ex, "Panic")
       \/ \E code \in {0, 1} :
             ex' = [ex EXCEPT !.pc = "done",
                              !.result = [tag |-> "Ok",
                                          report |-> [DefaultReport EXCEPT !.retval = code]]]
    /\ UNCHANGED <<MainVars, scan, dec, sch, rd, file, cli, cr>>

\* RunJobInfo::exec
RunExec ==
    /\ ex.pc = "exec" /\ ex.job = "job-run"
    /\ ex' = ExDone(ex, "Err")
    /\ UNCHANGED <<MainVars, scan, dec, sch, rd, file, cli, cr>>

\* ServiceRunJobInfo::exec
ServiceRunExec ==
    /\ ex.pc = "exec" /\ ex.job = "job-service-run"
    /\ ex' = ExDone(ex, "Err")
    /\ UNCHANGED <<MainVars, scan, dec, sch, rd, file, cli, cr>>

\* ---------------------------------- CliArgs::get_context (src/bin/main.rs)

\* most --prefix options on one command line
MaxPrefixes == 2

\* ApplicationContext::default()
DefaultContext ==
    [label_prefixes |-> <<>>, socket |-> None, unsafe_labels |-> FALSE,
     config_path |-> "/etc/cfc.conf"]

\* if !label_prefixes.contains(p) { label_prefixes.push(p) }
PushUnlessContained(list, p) == IF Contains(list, p) THEN list ELSE Append(list, p)

\* the DaemonArgs of a validate command line: there are none, nothing reads them
NoDaemonArgs == [label_prefixes |-> <<>>, socket_path |-> None, allow_unsafe |-> FALSE]

PrefixPool == {"ofelia", "cfc", "lab"}

DaemonArgsSet(n) ==
    [label_prefixes : UNION {[1..k -> PrefixPool] : k \in 0..n},
     socket_path : {None, Some("/run/docker.sock")},
     allow_unsafe : BOOLEAN]

ConfigPool == {None, Some("/etc/ofelia.conf"), Some("/srv/jobs.ini")}

CliStart(command, daemon_args, config, ofelia) ==
    [pc |-> "config", command |-> command, daemon_args |-> daemon_args,
     config |-> config, ofelia |-> ofelia,
     rest |-> <<>>, context |-> DefaultContext]

\* config_path: the --config value, else the compatibility path, else the default
ContextConfig ==
    /\ cli.pc = "config"
    /\ cli' = [cli EXCEPT !.pc = "command",
                 !.context.config_path =
                     IF cli.config # None THEN cli.config[1]
                     ELSE IF cli.ofelia THEN "/etc/ofelia.conf"
                     ELSE cli.context.config_path]
    /\ UNCHANGED <<MainVars, scan, dec, sch, rd, file, ex, cr>>

\* SubCommands::Daemon, up to the loop over the --prefix values
ContextDaemon ==
    /\ cli.pc = "command"
    /\ cli.command = "daemon"
    /\ cli' = [cli EXCEPT !.pc = "prefixes",
                 !.rest = cli.daemon_args.label_prefixes,
                 !.context.unsafe_labels = cli.daemon_args.allow_unsafe \/ cli.ofelia,
                 !.context.socket = cli.daemon_args.socket_path,
                 !.context.label_prefixes =
                     IF cli.ofelia THEN PushUnlessContained(@, "ofelia") ELSE @]
    /\ UNCHANGED <<MainVars, scan, dec, sch, rd, file, ex, cr>>

\* one turn of: for p in &daemon_args.label_prefixes
ContextPrefix ==
    /\ cli.pc = "prefixes"
    /\ cli.rest # <<>>
    /\ cli' = [cli EXCEPT !.rest = Tail(@),
                 !.context.label_prefixes = PushUnlessContained(@, Head(cli.rest))]
    /\ UNCHANGED <<MainVars, scan, dec, sch, rd, file, ex, cr>>

\* after the loop: the default prefix when the list is still empty, then return
ContextReturn ==
    /\ cli.pc = "prefixes"
    /\ cli.rest = <<>>
    /\ cli' = [cli EXCEPT !.pc = "done",
                 !.context.label_prefixes = IF @ = <<>> THEN <<"cfc">> ELSE @]
    /\ UNCHANGED <<MainVars, scan, dec, sch, rd, file, ex, cr>>

\* SubCommands::Validate(_) => {}
ContextValidate ==
    /\ cli.pc = "command"
    /\ cli.command = "validate"
    /\ cli' = [cli EXCEPT !.pc = "done"]
    /\ UNCHANGED <<MainVars, scan, dec, sch, rd, file, ex, cr>>

\* ------------------------- cron_sleep on the wall clock (src/job/mod.rs)
\*
\* The clock is read in parts of a millisecond.  The cron of the loop is the
\* expansion of "@every N<unit>": Expansion(unit, N), a step in the field of
\* the unit and zeros in the fields below it.

\* clock readings per millisecond
SubMs == 2
\* the longest a poll or a wake-up comes late, in clock readings
MaxLate == 2
\* fires one loop delivers before the model stops following it
MaxFires == 3
\* largest N of the schedules "@every N<unit>" at work
MaxEvery == 7

Second == 1000 * SubMs

\* the length of the unit of a schedule, in clock readings
UnitLength(unit) ==
    CASE unit = "s" -> Second
      [] unit = "m" -> 60 * Second
      [] unit = "h" -> 3600 * Second

\* the values of the field of the unit: 0..59 seconds or minutes, 0..23 hours
FieldRange(unit) == IF unit = "h" THEN 24 ELSE 60

\* the k-th unit since midnight matches the step */n of its field when the
\* value of the field is a multiple of n
StepMatches(every, k) == (k % FieldRange(every.unit)) % every.n = 0

\* cron.find_next_occurrence(&current_time, false): the least instant of the
\* pattern that is strictly later than current_time
find_next_occurrence(every, current_time) ==
    LET u == UnitLength(every.unit)
        k0 == current_time \div u
        k == CHOOSE k \in (k0 + 1) .. (k0 + FieldRange(every.unit)) :
                 /\ StepMatches(every, k)
                 /\ \A j \in (k0 + 1) .. (k - 1) : ~StepMatches(every, j)
    IN  k * u

\* Duration::num_milliseconds: the whole milliseconds of a span, the rest dropped
num_milliseconds(span) == span \div SubMs

\* instants of a unit a loop may start at: on an occurrence, just after,
\* in the middle, and within the last millisecond before the next
Offsets(u) == {0, 1, u \div 2, u - SubMs - 1, u - 1}

NoFire == 0 - 1

CronStart(every, now) ==
    [pc |-> "spawned", every |-> every, now |-> now,
     current_time |-> now, next_occurence |-> NoFire, sleep |-> 0,
     previous |-> NoFire, fires |-> 0]

\* cron_sleep up to its await: the task is polled, reads the clock, asks the
\* cron for the next occurrence and computes the sleep in milliseconds
CronSleepNow ==
    /\ cr.pc = "spawned"
    /\ \E late \in 0..MaxLate :
          LET current_time == cr.now + late
              next_occurence == find_next_occurrence(cr.every, current_time)
              sleep == num_milliseconds(next_occurence - current_time)
          IN  cr' = [cr EXCEPT !.pc = IF sleep >= 0 THEN "sleeping" ELSE "panicked",
                        !.now = current_time,
                        !.current_time = current_time,
                        !.next_occurence = next_occurence,
                        !.sleep = sleep]
    /\ UNCHANGED <<MainVars, scan, dec, sch, rd, file, ex, cli>>

\* tokio::time::sleep(Duration::from_millis(sleep)) completes: not before the
\* duration has passed, possibly later; the task returns Ok(Some(true))
CronSleepWake ==
    /\ cr.pc = "sleeping"
    /\ \E late \in 0..MaxLate :
          cr' = [cr EXCEPT !.pc = "ready",
                    !.now = cr.current_time + cr.sleep * SubMs + late]
    /\ UNCHANGED <<MainVars, scan, dec, sch, rd, file, ex, cli>>

\* JobInfo::start: join_next hands the Fire over, the loop spawns the
\* execution and the next cron_sleep
StartFire ==
    /\ cr.pc = "ready"
    /\ cr.fires < MaxFires
    /\ cr' = [cr EXCEPT !.pc = "spawned",
                 !.previous = cr.next_occurence,
                 !.fires = @ + 1]
    /\ UNCHANGED <<MainVars, scan, dec, sch, rd, file, ex, cli>>

\* ---------------------------------------------------------- specifications

Commands ==
    { [command |-> "daemon", docker |-> FALSE],
      [command |-> "daemon", docker |-> TRUE],
      [command |-> "validate", docker |-> FALSE] }

InitWith(maps) ==
    /\ args \in Commands
    /\ input \in Inputs(maps)
    /\ pc = "start"
    /\ exit_code = NoExit
    /\ targets = <<>>
    /\ loops = <<>>
    /\ interrupted = FALSE
    /\ scan = ScanIdle
    /\ dec = DecIdle
    /\ OthersIdle

Init == timed = FALSE /\ InitWith(SampleMaps)

InitTimed == timed = TRUE /\ InitWith(TimedMaps)

Next ==
    \/ MainDaemonLoad
    \/ MainValidate
    \/ MainSpawn
    \/ MainOnInterrupt
    \/ MainExitOnSignal
    \/ MainOnJobEnd
    \/ MainListenFails
    \/ SigintCaught
    \/ SigintDefault
    \/ Sigterm
    \/ \E j \in Jobs : LoopStart(j)
    \/ \E j \in Jobs : LoopFire(j)
    \/ \E j \in Jobs : LoopReport(j)
    \/ \E j \in Jobs : LoopExecErr(j)
    \/ \E j \in Jobs : LoopJoinErr(j)
    \/ \E j \in Jobs : LoopReturn(j)
    \/ \E j \in Jobs : DropLoop(j)

NextTimed == Next \/ Tick

Spec == Init /\ [][Next]_vars

SpecTimed == InitTimed /\ [][NextTimed]_vars

InitLabels == MainIdle /\ dec = DecIdle /\ OthersIdle /\ \E in \in ScanInputs(MaxLabels) : scan = ScanStart(in)

NextLabels ==
    \/ ScanList
    \/ ScanListFails
    \/ ScanContainer
    \/ ScanPrefixDone
    \/ ScanLabel
    \/ ScanReturn

SpecLabels == InitLabels /\ [][NextLabels]_vars

InitDecode == MainIdle /\ scan = ScanIdle /\ OthersIdle /\ \E p \in DecInputs(JobKinds \cup {"job-foo"}) : dec = DecStart(p)

NextDecode == DecodeEntry

SpecDecode == InitDecode /\ [][NextDecode]_vars

InitSchedule ==
    /\ MainIdle /\ scan = ScanIdle /\ dec = DecIdle
    /\ rd = Idle /\ file = Idle /\ ex = Idle /\ cli = Idle /\ cr = Idle
    /\ \E text \in ScheduleInputs : sch = SchStart(text)

NextSchedule == ScheduleToCron

SpecSchedule == InitSchedule /\ [][NextSchedule]_vars

InitIni ==
    /\ MainIdle /\ scan = ScanIdle /\ dec = DecIdle
    /\ sch = Idle /\ file = Idle /\ ex = Idle /\ cli = Idle /\ cr = Idle
    /\ \E items \in IniPayloads(MaxItems) : rd = IniStart(items)

NextIni == IniNext \/ IniEnd

SpecIni == InitIni /\ [][NextIni]_vars

InitYaml ==
    /\ MainIdle /\ scan = ScanIdle /\ dec = DecIdle
    /\ sch = Idle /\ file = Idle /\ ex = Idle /\ cli = Idle /\ cr = Idle
    /\ rd \in YamlStarts(MaxItems)

NextYaml == YamlNext \/ YamlEnd

SpecYaml == InitYaml /\ [][NextYaml]_vars

InitFile ==
    /\ MainIdle /\ scan = ScanIdle /\ dec = DecIdle
    /\ sch = Idle /\ rd = Idle /\ ex = Idle /\ cli = Idle /\ cr = Idle
    /\ \E path \in Paths, content \in Contents : file = FileStart(path, content)

NextFile == FileRead \/ FileContent \/ FileDecode

SpecFile == InitFile /\ [][NextFile]_vars

InitExec ==
    /\ MainIdle /\ scan = ScanIdle /\ dec = DecIdle
    /\ sch = Idle /\ rd = Idle /\ file = Idle /\ cli = Idle /\ cr = Idle
    /\ ex = ExStart

NextExec ==
    \/ ExecCommandPanics
    \/ ExecCreate
    \/ ExecStart
    \/ ExecFrame
    \/ ExecStreamError
    \/ ExecStreamEnd
    \/ ExecInspect

SpecExec == InitExec /\ [][NextExec]_vars

InitExecutors ==
    /\ MainIdle /\ scan = ScanIdle /\ dec = DecIdle
    /\ sch = Idle /\ rd = Idle /\ file = Idle /\ cli = Idle /\ cr = Idle
    /\ \/ \E environment \in EnvLists(MaxEnv) : ex = LocalStart(environment)
       \/ \E kind \in {"job-run", "job-service-run"}, delete \in BOOLEAN :
             ex = RunStart(kind, delete)

NextExecutors == LocalEnv \/ LocalOutput \/ RunExec \/ ServiceRunExec

SpecExecutors == InitExecutors /\ [][NextExecutors]_vars

InitContext ==
    /\ MainIdle /\ scan = ScanIdle /\ dec = DecIdle
    /\ sch = Idle /\ rd = Idle /\ file = Idle /\ ex = Idle /\ cr = Idle
    /\ \E config \in ConfigPool, ofelia \in BOOLEAN :
          \/ \E daemon_args \in DaemonArgsSet(MaxPrefixes) :
                cli = CliStart("daemon", daemon_args, config, ofelia)
          \/ cli = CliStart("validate", NoDaemonArgs, config, ofelia)

NextContext ==
    \/ ContextConfig
    \/ ContextDaemon
    \/ ContextPrefix
    \/ ContextReturn
    \/ ContextValidate

SpecContext == InitContext /\ [][NextContext]_vars

InitCron ==
    /\ MainIdle /\ scan = ScanIdle /\ dec = DecIdle
    /\ sch = Idle /\ rd = Idle /\ file = Idle /\ ex = Idle /\ cli = Idle
    /\ \E unit \in Units, n \in 1..MaxEvery :
          /\ common_schedule_to_cron(Every(<<" ">>, Decimal(n), unit)).tag = "Ok"
          /\ \E k \in 0 .. (FieldRange(unit) - 1), o \in Offsets(UnitLength(unit)) :
                cr = CronStart([unit |-> unit, n |-> n], k * UnitLength(unit) + o)

NextCron == CronSleepNow \/ CronSleepWake \/ StartFire

SpecCron == InitCron /\ [][NextCron]_vars

\* ------------------------------------------------------------------ claims

Running(j) == loops[j].status = "running"
Serial(j) == Running(j) /\ ~loops[j].may_run_parallel
FireJoined(j) == \E t \in Timers(loops[j].set) : LoopJoin(j, t, "Fire")

\* C1: a loop whose may_run_parallel is false never holds more than one
\* execution task that is spawned and not yet joined, whatever fires and
\* completions came before; a parallel loop is not held to any such limit
\* (C1_Witness: it reaches the model's cap).
C1_SerialAtMostOne ==
    \A j \in Jobs : ~loops[j].may_run_parallel => NumExecs(loops[j].set) <= 1

C1_Witness ==
    /\ \E j \in Jobs : Serial(j) /\ NumExecs(loops[j].set) = 1 /\ loops[j].skipped > 0
    /\ \E j \in Jobs : Running(j) /\ loops[j].may_run_parallel
                       /\ NumExecs(loops[j].set) = MaxExecs

\* C2: in a serial loop a Fire joined while an execution is outstanding starts
\* nothing and leaves nothing behind; an execution is started only by a Fire
\* joined when none is outstanding, and every such Fire starts one.  With a
\* schedule of one second (2 ticks), an execution of 2.5 seconds (5 ticks) has
\* seen exactly two skipped Fires when it completes.
C2_Step(j) ==
    LET n == NumExecs(loops[j].set)
        m == NumExecs(loops'[j].set)
    IN  Serial(j) =>
          /\ FireJoined(j) => m = (IF n = 0 THEN 1 ELSE n)
          /\ m > n => n = 0 /\ FireJoined(j)

C2_TwoSkipped ==
    \A j \in Jobs :
        Serial(j) /\ loops[j].period = 2 =>
            \A t \in Execs(loops[j].set) :
                t.dur = 5 /\ t.left = 0 => loops[j].skipped = 2

C2_DropPolicy == [] C2_TwoSkipped /\ [][\A j \in Jobs : C2_Step(j)]_vars

C2_Witness ==
    \E j \in Jobs :
        /\ Serial(j) /\ loops[j].period = 2 /\ loops[j].skipped = 2
        /\ \E t \in Execs(loops[j].set) : t.dur = 5 /\ t.left = 0

\* C3: joining an execution that ended with an error result leaves the loop
\* running with its one timer; after failures the next Fire still dispatches
\* (when the gate allows it); and a loop stops running only by returning on an
\* empty task set or by the supervisor's cancellation.
C3_Step(j) ==
    LET l == loops[j]
        k == loops'[j]
    IN  /\ (\E t \in Execs(l.set) : LoopJoin(j, t, "ExecErr")) =>
              /\ k.status = "running"
              /\ NumTimers(k.set) = NumTimers(l.set)
              /\ NumTimers(k.set) = 1
        /\ (l.fails > 0 /\ FireJoined(j)
                /\ (l.may_run_parallel \/ NumExecs(l.set) = 0)) =>
              NumExecs(k.set) = NumExecs(l.set) + 1
        /\ (l.status = "running" /\ k.status # "running") =>
              \/ k.status = "returned" /\ l.set = EmptyBag
              \/ k.status \in {"aborted", "cancelled"}
                    /\ pc' \in {"shutdown", "exit_job_ended"}

C3_KeepsGoing == [][\A j \in Jobs : C3_Step(j)]_vars

C3_Witness ==
    \E j \in Jobs :
        /\ Serial(j) /\ loops[j].fails = MaxFails
        /\ NumExecs(loops[j].set) = 1 /\ NumTimers(loops[j].set) = 1

\* C4: a running loop that has a task to wait for holds exactly one timer
\* task; it holds none only with an empty task set, where join_next does not
\* wait and the loop returns.
C4_OneTimer ==
    \A j \in Jobs :
        Running(j) => NumTimers(loops[j].set) = 1 \/ loops[j].set = EmptyBag

C4_Witness ==
    \E j \in Jobs :
        /\ Running(j) /\ loops[j].fails > 0 /\ loops[j].join_err = "exec"
        /\ NumExecs(loops[j].set) >= 2 /\ NumTimers(loops[j].set) = 1

\* C5 as stated: once a task was joined with a join error the loop is over: it
\* does not wait for another outcome (stated for the parallel loops, which are
\* the loops of the four job variants).
C5_JoinErrorEndsLoop ==
    \A j \in Jobs :
        (loops[j].may_run_parallel /\ loops[j].join_err # "none") =>
            ~(Running(j) /\ loops[j].set # EmptyBag)

\* C5 amended: a join error of the timer task leaves the loop with an empty
\* task set, so that start returns its error; a join error of an execution
\* task is ignored: the loop keeps running with its timer.
C5_Step(j) ==
    (\E t \in Execs(loops[j].set) : LoopJoin(j, t, "JoinErr")) =>
        /\ loops'[j].status = "running"
        /\ NumTimers(loops'[j].set) = 1
        /\ NumExecs(loops'[j].set) = NumExecs(loops[j].set) - 1

C5_TimerErrorDrains ==
    \A j \in Jobs :
        loops[j].join_err = "timer" /\ Running(j) =>
            /\ loops[j].set = EmptyBag
            /\ pc = "select" => ENABLED LoopReturn(j)

C5_OnlyTimerErrorEndsLoop ==
    [] C5_TimerErrorDrains /\ [][\A j \in Jobs : C5_Step(j)]_vars

C5_Witness ==
    \E j \in Jobs :
        Running(j) /\ loops[j].join_err = "exec" /\ NumTimers(loops[j].set) = 1

\* C6: a SIGINT caught while every loop is alive leads main out of the select
\* only into the shutdown (or the process is killed), with every loop aborted;
\* during the shutdown no loop runs; and main exits on the signal with status 0
\* only when every loop has ended and no task of a loop is left.
C6_Step ==
    (pc = "select" /\ interrupted /\ (\A j \in Jobs : Live(j))
        /\ pc' \notin {"select", "killed_sigterm"}) =>
            pc' = "shutdown" /\ \A j \in Jobs : loops'[j].status = "aborted"

C6_Drained ==
    /\ pc = "shutdown" => \A j \in Jobs : ~Live(j)
    /\ pc = "exit_signal" =>
          /\ exit_code = 0
          /\ \A j \in Jobs : /\ loops[j].status \in {"returned", "cancelled"}
                             /\ loops[j].set = EmptyBag

C6_CancelDrainExitZero == [] C6_Drained /\ [][C6_Step]_vars

C6_Witness ==
    /\ pc = "exit_signal"
    /\ Cardinality(Jobs) = 2
    /\ \A j \in Jobs : loops[j].status = "cancelled"

\* C7 as stated: when main leaves the select because a loop ended, the whole
\* process is stopped and its exit status is not zero.
C7_LoopEndExitsNonZero ==
    pc = "exit_job_ended" =>
        /\ exit_code \notin {0, NoExit}
        /\ \A j \in Jobs : ~Live(j)

\* C8 as stated: a process that received SIGTERM after it spawned its loops
\* has cancelled and drained them and ended with status 0.
C8_SigtermLikeSigint ==
    (pc = "killed_sigterm" /\ Jobs # {}) => exit_code = 0 /\ ShutdownDone(loops)

\* C9: in daemon mode, once a load that succeeded with an empty job list has
\* been handled, the process has ended with status 1 and holds no loop.
C9_EmptyListExitsOne ==
    (args.command = "daemon" /\ LoadResult.tag = "Ok" /\ LoadResult.jobs = <<>>) =>
        /\ pc \in {"start", "exit_no_job", "killed_sigint", "killed_sigterm"}
        /\ pc = "exit_no_job" => exit_code = 1
        /\ loops = <<>>

C9_Witness ==
    /\ pc = "exit_no_job"
    /\ exit_code = 1
    /\ input.map = <<GlobalSection>>

\* C10 as stated: once the load has been handled, a failed load means exit
\* status 1 under either command, and validate ends with status 0 exactly
\* when the load succeeded.
C10_LoadFailureExitsOne ==
    pc \notin {"start", "killed_sigint", "killed_sigterm"} =>
        /\ LoadResult.tag # "Ok" => exit_code = 1
        /\ args.command = "validate" => (exit_code = 0 <=> LoadResult.tag = "Ok")

\* ---- claims about the label loader (SpecLabels)

\* the label that the last turn of the label loop handled, and its branch
LastLabel == scan'.last.label
LastNote == scan'.last.note
KeyFilterNotes == {"skip_prefix", "skip_parts"}
IncludeNotes == {"stored", "repeat_same", "repeat_differs", "conflict"}

\* the number of separators of a key, and the text before the first one
Dots(key) == Cardinality({i \in 1 .. Len(key) : key[i] = Dot})
FirstText(key) ==
    Concat(SubSeq(key, 1, IF FirstDot(key) = 0 THEN Len(key) ELSE FirstDot(key) - 1))
FourSegments(key, prefixes) ==
    Dots(key) = 3 /\ \E i \in 1 .. Len(prefixes) : prefixes[i] = FirstText(key)

\* C11: the key filter of get_tagged_targets lets a label through iff its
\* key has exactly four dot-separated segments and the first one is a
\* configured prefix; every other label leaves the map as it was and
\* returns no error.
C11_Step ==
    ScanLabel =>
        /\ (LastNote \notin KeyFilterNotes) <=> FourSegments(LastLabel.key, scan.prefixes)
        /\ ~FourSegments(LastLabel.key, scan.prefixes) =>
              /\ scan'.job_map = scan.job_map
              /\ scan'.result = "none"
              /\ scan'.pc # "done"

C11_FourSegmentsOnly == [][C11_Step]_vars

C11_Witness ==
    /\ scan.pc \notin {"idle", "done"}
    /\ scan.last.note = "skip_parts"
    /\ Dots(scan.last.label.key) = 4
    /\ scan.job_map # <<>>
    /\ scan.result = "none"

\* C12: with allow_unsafe_jobs = false the map never holds an entry of kind
\* job-local, and no label whose kind segment is job-local was stored.
C12_NoLocalWhenSafe ==
    (scan.pc # "idle" /\ ~scan.allow_unsafe_jobs) =>
        /\ \A k \in DOMAIN scan.job_map : ~Contains(scan.job_map[k]["kind"], "job-local")
        /\ \A l \in scan.used : split(l.key)[2] # "job-local"

C12_Witness ==
    /\ scan.pc = "done"
    /\ scan.result = "Ok"
    /\ ~scan.allow_unsafe_jobs
    /\ LocalL \in scan.containers["c1"]
    /\ HelloCommand \in scan.containers["c1"]
    /\ DOMAIN scan.job_map = {"c1_job-exec_hello"}

\* C13: prefixes cfc and ofelia, one container with the labels
\* cfc.job-run.j.schedule and ofelia.job-exec.j.schedule: get_tagged_targets
\* returns the error of conflicting cron types.
C13_ConflictingKindsFail ==
    ( /\ scan.pc = "done"
      /\ scan.result # "ErrList"
      /\ scan.prefixes = <<"cfc", "ofelia">>
      /\ {RunJ, ExecJ} \subseteq scan.containers["c1"] )
    => scan.result = "ErrConflict"

\* what C14 expects to be stored for a value
C14_Expected(value) ==
    LET j == json_parse(value)
    IN  IF j.ok /\ j.type = "Array" /\ \A i \in 1 .. Len(j.items) : j.items[i].type = "String"
        THEN [i \in 1 .. Len(j.items) |-> j.items[i].s]
        ELSE <<value>>

\* the job key of a four-segment label on the current container
KeyOf(label) ==
    JobKey(scan.container_id, split(label.key)[2], split(label.key)[3])
ParamOf(label) == split(label.key)[4]

\* the entry already holds the label's parameter before the turn
HeldBefore(label) ==
    /\ KeyOf(label) \in DOMAIN scan.job_map
    /\ ParamOf(label) \in DOMAIN scan.job_map[KeyOf(label)]

\* C14: a label of parameter volume, network or environment that the entry
\* does not hold yet is stored whatever its value, without an error of the
\* value: as the array when the value parses as a JSON array of strings, as
\* the singleton of the raw value otherwise.
C14_Step ==
    ( /\ ScanLabel
      /\ LastNote \in IncludeNotes
      /\ ParamOf(LastLabel) \in JsonParameters
      /\ ~HeldBefore(LastLabel) )
    => /\ LastNote \in {"stored", "conflict"}
       /\ scan'.result # "ErrValue"
       /\ LastNote = "stored" =>
             /\ scan'.result = "none"
             /\ scan'.job_map[KeyOf(LastLabel)][ParamOf(LastLabel)]
                  = C14_Expected(LastLabel.value)

C14_JsonIsFallback == [][C14_Step]_vars

C14_Witness ==
    /\ scan.pc = "done"
    /\ scan.result = "Ok"
    /\ "c1_job-exec_hello" \in DOMAIN scan.job_map
    /\ DOMAIN scan.job_map["c1_job-exec_hello"]
         = {"kind", "name", "container", "environment", "volume"}
    /\ scan.job_map["c1_job-exec_hello"]["environment"] = <<"A=1", "B=2">>
    /\ scan.job_map["c1_job-exec_hello"]["volume"] = <<JsonArrayMixed>>

\* C15: in the map get_tagged_targets returns, every attribute list is
\* non-empty and holds no empty string.
C15_ListsNonEmpty ==
    (scan.pc = "done" /\ scan.result = "Ok") =>
        \A k \in DOMAIN scan.job_map : \A p \in DOMAIN scan.job_map[k] :
            /\ scan.job_map[k][p] # <<>>
            /\ ~Contains(scan.job_map[k][p], "")

\* C16: on first sight of a job key the entry is seeded with kind = [kind],
\* name = [job-name], and container = [container-id] iff the kind is not
\* job-local; container c1 with cfc.enabled, cfc.job-exec.hello.schedule and
\* cfc.job-exec.hello.command yields exactly the entry c1_job-exec_hello of
\* five singletons, which decodes to an ExecJob.
C16_Step ==
    (ScanLabel /\ LastNote \in IncludeNotes) =>
        LET kind == split(LastLabel.key)[2]
            name == split(LastLabel.key)[3]
            seed == scan'.last.seed
        IN  /\ seed.seeded <=> KeyOf(LastLabel) \notin DOMAIN scan.job_map
            /\ seed.seeded =>
                 /\ seed.key = scan.container_id \o "_" \o kind \o "_" \o name
                 /\ seed.entry["kind"] = <<kind>>
                 /\ seed.entry["name"] = <<name>>
                 /\ ("container" \in DOMAIN seed.entry) <=> kind # "job-local"
                 /\ kind # "job-local" => seed.entry["container"] = <<scan.container_id>>
                 /\ DOMAIN seed.entry \subseteq {"kind", "name", "container"}

C16_Hello ==
    [kind |-> <<"job-exec">>, name |-> <<"hello">>, container |-> <<"c1">>,
     schedule |-> <<"@every 5s">>, command |-> <<"echo hi">>]

C16_Example ==
    ( /\ scan.pc = "done"
      /\ scan.result = "Ok"
      /\ scan.containers["c1"] = {Enabled("cfc"), HelloSchedule, HelloCommand} )
    => /\ DOMAIN scan.job_map = {"c1_job-exec_hello"}
       /\ scan.job_map["c1_job-exec_hello"] = C16_Hello
       /\ LET r == map_to_job(<<Entry("c1_job-exec_hello",
                                       scan.job_map["c1_job-exec_hello"])>>)
          IN  /\ r.tag = "Ok"
              /\ Len(r.jobs) = 1
              /\ r.jobs[1].kind = "job-exec"
              /\ r.jobs[1].name = "hello"

C16_SeedAndExample == [] C16_Example /\ [][C16_Step]_vars

C16_Witness ==
    /\ scan.pc = "done"
    /\ scan.result = "Ok"
    /\ scan.containers["c1"] = {Enabled("cfc"), HelloSchedule, HelloCommand}
    /\ scan.job_map = [k \in {"c1_job-exec_hello"} |-> C16_Hello]

\* C17: a parameter that the entry of the job key already holds is met
\* again (the container that equals the seeded one aside): when the new
\* value is in the stored list the loading goes on and the map is left as
\* it was, when it is not get_tagged_targets returns an error.
C17_Step ==
    ( /\ ScanLabel
      /\ LastNote \in IncludeNotes \ {"conflict"}
      /\ HeldBefore(LastLabel)
      /\ ~( /\ ParamOf(LastLabel) = "container"
            /\ scan.job_map[KeyOf(LastLabel)]["container"] = <<LastLabel.value>> ) )
    => LET stored == scan.job_map[KeyOf(LastLabel)][ParamOf(LastLabel)]
       IN  IF \E i \in 1 .. Len(stored) : stored[i] = LastLabel.value
           THEN /\ scan'.result = "none"
                /\ scan'.pc # "done"
                /\ scan'.job_map = scan.job_map
           ELSE /\ scan'.result = "ErrValue"
                /\ scan'.pc = "done"

C17_RepeatedParameter == [][C17_Step]_vars

C17_Witness ==
    /\ scan.pc \notin {"idle", "prefix"}
    /\ scan.result = "none"
    /\ scan.last.note = "repeat_same"
    /\ scan.last.label = Label(Key4("ofelia", "job-exec", "hello", "command"), "echo hi")
    /\ scan.job_map["c1_job-exec_hello"]["command"] = <<"echo hi">>

\* ---- claims about the decoder (SpecDecode)

Decoded == dec.pc = "done"

\* the single-valued attributes that the struct of a kind reads
SingleValued(kind) ==
    {"name", "schedule", "command"}
    \cup (IF kind = "job-exec" THEN {"container", "user", "tty"} ELSE {})
    \cup (IF kind = "job-run"
          THEN {"container", "image", "user", "hostname", "tty", "delete"} ELSE {})
    \cup (IF kind = "job-service-run"
          THEN {"container", "image", "user", "tty", "delete"} ELSE {})
    \cup (IF kind = "job-local" THEN {"dir"} ELSE {})

KnownKind(p) == Has(p, "kind") /\ Len(p["kind"]) = 1 /\ p["kind"][1] \in JobKinds

\* does an attribute map decode
DecodesOk(p) == map_to_job(<<Entry("entry", p)>>).tag = "Ok"

\* the map with the list of attribute k replaced by one sound value
WithOne(p, k) ==
    [x \in DOMAIN p \cup {k} |->
        IF x # k THEN p[x]
        ELSE IF k = "schedule" THEN <<"@every 1s">>
        ELSE IF k \in {"tty", "delete"} THEN <<"true">>
        ELSE <<"c1">>]

\* C18: decoding returns an error whenever a single-valued attribute that
\* the job's kind reads carries a list whose length is not 1 (stated for
\* the entries where that list is the only fault).
C18_LengthNotOneIsError ==
    ( /\ Decoded
      /\ KnownKind(dec.params)
      /\ \E k \in SingleValued(dec.params["kind"][1]) \cap DOMAIN dec.params :
            Len(dec.params[k]) # 1 /\ DecodesOk(WithOne(dec.params, k)) )
    => dec.result.tag = "Err"

\* C19: tty defaults to false and delete to true, "true" and "false" decode
\* to the boolean, and any other value makes the decoding return an error
\* (stated for the entries where that value is the only fault).
C19_Bool(p, k, default) ==
    (k \in SingleValued(p["kind"][1]) /\ (Has(p, k) => Len(p[k]) = 1)) =>
        IF ~Has(p, k)
        THEN dec.result.tag = "Ok" => dec.result.jobs[1][k] = default
        ELSE IF p[k][1] \in {"true", "false"}
        THEN dec.result.tag = "Ok" => (dec.result.jobs[1][k] <=> p[k][1] = "true")
        ELSE DecodesOk(WithOne(p, k)) => dec.result.tag = "Err"

C19_Booleans ==
    (Decoded /\ KnownKind(dec.params)) =>
        /\ C19_Bool(dec.params, "tty", FALSE)
        /\ C19_Bool(dec.params, "delete", TRUE)

\* C20: decoding returns an error when kind, schedule or command is
\* missing, and when container is missing for job-exec (stated for the
\* entries where the missing container is the only fault).
C20_MissingRequiredIsError ==
    Decoded =>
        /\ (\E k \in {"kind", "schedule", "command"} : ~Has(dec.params, k))
              => dec.result.tag = "Err"
        /\ (KnownKind(dec.params) /\ dec.params["kind"][1] = "job-exec"
              /\ ~Has(dec.params, "container")
              /\ DecodesOk(WithOne(dec.params, "container")))
              => dec.result.tag = "Err"

\* C21: an entry whose schedule does not parse is decoded to an error (stated
\* for the entries where the schedule is the only fault), and a job that is
\* built has a schedule that parsed.
C21_UnparsedScheduleIsError ==
    Decoded =>
        /\ ( /\ KnownKind(dec.params)
              /\ Has(dec.params, "schedule") /\ Len(dec.params["schedule"]) = 1
              /\ ~schedule_to_cron(dec.params["schedule"][1]).ok
              /\ DecodesOk(WithOne(dec.params, "schedule")) )
              => dec.result.tag = "Err"
        /\ dec.result.tag = "Ok"
              => schedule_to_cron(Last(dec.params["schedule"])).ok

\* C22: a job-run entry with neither image nor container is decoded to an
\* error, and a job-run job that is built has an image or a container.
C22_RunNeedsImageOrContainer ==
    (Decoded /\ KnownKind(dec.params) /\ dec.params["kind"][1] = "job-run") =>
        /\ (~Has(dec.params, "image") /\ ~Has(dec.params, "container"))
              => dec.result.tag = "Err"
        /\ dec.result.tag = "Ok"
              => (dec.result.jobs[1].image # <<>> \/ dec.result.jobs[1].container # <<>>)

\* the name map_to_job hands to try_from for the entry
NameGiven(p) == IF Has(p, "name") THEN Last(p["name"]) ELSE "entry"

Scheduled == sch.pc = "done"

\* a run of digits without its leading zeros
RECURSIVE StripZeros(_)
StripZeros(digits) ==
    IF Len(digits) > 1 /\ Head(digits) = "0" THEN StripZeros(Tail(digits)) ELSE digits

\* the texts of the shape '@every N<unit>': the word, white space, the
\* digits of N, the unit
EveryShapes(t) ==
    { c \in [space : {SubSeq(t, 2, i) : i \in 2..Len(t)},
             digits : {SubSeq(t, i, Len(t) - 1) : i \in 3..(Len(t) - 1)},
             unit : Units] :
        /\ t = <<"@every">> \o c.space \o c.digits \o <<c.unit>>
        /\ \A i \in 1..Len(c.space) : c.space[i] \in WhiteSpace
        /\ \A i \in 1..Len(c.digits) : c.digits[i] \in Digits }

\* C24: schedule_to_cron hands to the cron parser the expansion of a trimmed
\* text of the shape '@every N<unit>' and the trimmed text itself otherwise,
\* so that "@every 10s" gives what "*/10 * * * * *" gives.
C24_EveryExpansion ==
    Scheduled =>
        LET t == trim(sch.text)
        IN  /\ \A c \in EveryShapes(t) :
                  /\ sch.result.tag \in {"Ok", "Err"}
                  /\ sch.result.pattern = Expansion(c.unit, StripZeros(c.digits))
            /\ EveryShapes(t) = {}
                  => sch.result.tag \in {"Ok", "Err"} /\ sch.result.pattern = t
            /\ t = Every(<<" ">>, Ten, "s")
                  => sch.result = common_schedule_to_cron(Expansion("s", Ten))

\* -------------------------------------------------------- reader claims

\* the list a section holds for a key, empty when it holds none
Held(data, section, k) ==
    IF section \in DOMAIN data /\ k \in DOMAIN data[section] THEN data[section][k]
    ELSE <<>>

\* the turn reads a property with a value inside a section
C25_PropertyTurn ==
    /\ IniNext
    /\ Head(rd.items).type = "Property" /\ Head(rd.items).value # <<>>
    /\ rd.current_section # ""

C25_Key == Concat(trim(Head(rd.items).key))
C25_Value == Concat(trim(Head(rd.items).value[1]))

\* C25: a property with a value that is read inside a section is appended
\* to the list of its key in that section, and nothing else changes
C25_Step ==
    C25_PropertyTurn =>
        /\ rd'.pc = "read"
        /\ Held(rd'.current_data, rd.current_section, C25_Key)
              = Append(Held(rd.current_data, rd.current_section, C25_Key), C25_Value)
        /\ \A s \in DOMAIN rd.current_data :
              \A k \in DOMAIN rd.current_data[s] :
                 (s # rd.current_section \/ k # C25_Key)
                    => Held(rd'.current_data, s, k) = rd.current_data[s][k]
        /\ DOMAIN rd'.current_data = DOMAIN rd.current_data
        /\ DOMAIN rd'.current_data[rd.current_section]
              = DOMAIN rd.current_data[rd.current_section] \cup {C25_Key}

\* the example: [job-exec "j"], environment=A=1, environment=B=2
C25_Example ==
    (rd.pc = "done" /\ rd.reader = "ini"
       /\ rd.payload = <<Section(HeaderExecJ), Property(<<"environment">>, <<"A=1">>),
                      Property(<<"environment">>, <<"B=2">>)>>)
    => Held(rd.result.data, SectionKey("job-exec", "j"), "environment") = <<"A=1", "B=2">>

C25_AppendsInFileOrder == [][C25_Step]_vars /\ []C25_Example

C25_Witness ==
    /\ rd.pc = "done" /\ rd.reader = "ini"
    /\ rd.result.tag = "Ok"
    /\ Held(rd.result.data, SectionKey("job-exec", "j"), "environment") = <<"A=1", "B=2">>

\* the normalized map of a document of jobs: each job name with its
\* attributes, each attribute with the list of its values
RECURSIVE Normalized(_)
Normalized(jobs) ==
    IF jobs = <<>> THEN <<>>
    ELSE LET job == Head(jobs)
             attrs == [k \in {job.attrs[i].key : i \in 1..Len(job.attrs)} |->
                          (CHOOSE a \in {job.attrs[i] : i \in 1..Len(job.attrs)} :
                              a.key = k).values]
         IN  Insert(Normalized(Tail(jobs)), job.name, attrs)

\* C26: the YAML reader turns a mapping of job names to attribute mappings
\* into the map of one entry for each job name, in which a scalar attribute
\* is a singleton list and a sequence attribute the list of its items
C26_YamlNormalized ==
    (rd.pc = "done" /\ rd.reader = "yaml" /\ rd.payload.shape = "jobs")
    => rd.result = [tag |-> "Ok", data |-> Normalized(rd.payload.jobs)]

\* the jobs of the crate documentation's example
ExampleJobs ==
    [tag |-> "Ok",
     jobs |-> << [kind |-> "job-exec", name |-> ExampleName,
                  period |-> schedule_to_cron("@hourly").period,
                  occurs |-> TRUE, command |-> "touch /tmp/cfc",
                  tty |-> FALSE, container |-> "my-container"] >>]

\* C27: the example of the crate documentation loads to the same jobs from
\* its INI syntax and from its YAML syntax: the job-exec job of its name,
\* schedule, command and container
C27_IniYamlEquivalent ==
    (file.pc = "done" /\ file.content.readable /\ file.content.utf8) =>
        /\ (file.ext = "ini" /\ file.content.ini = ExampleIni)
              => file.result = ExampleJobs
        /\ (file.ext \in {"yaml", "yml"} /\ file.content.yaml = ExampleYaml)
              => file.result = ExampleJobs

\* the content has been handed to load_file_content
Dispatched == file.pc \in {"decode", "done"} /\ file.r.tag # "none"

\* what the readers give for the content
IniResult == parse_ini(file.content.ini)
YamlResult == parse_yaml(file.content.yaml)

\* a reader's result as it is passed on: the map, or that it failed
Passed(r) == IF r.tag = "Ok" THEN r ELSE [tag |-> r.tag]

\* C28: on 'ini' the INI reader alone is called and its result returned, on
\* 'yaml' and 'yml' the YAML reader alone; on any other extension the INI
\* reader is called and its success returned, and the YAML reader is called
\* after its failure and gives the result, so that the load fails only if
\* both readers fail
C28_ReaderByExtension ==
    Dispatched =>
        CASE file.ext = "ini" ->
                /\ file.tried = <<"ini">>
                /\ file.r = Passed(IniResult)
          [] file.ext \in {"yaml", "yml"} ->
                /\ file.tried = <<"yaml">>
                /\ file.r = Passed(YamlResult)
          [] OTHER ->
                IF IniResult.tag = "Ok"
                THEN file.tried = <<"ini">> /\ file.r = IniResult
                ELSE /\ file.tried = <<"ini", "yaml">>
                     /\ file.r = Passed(YamlResult)

\* an extension that is neither: the INI reader fails, the YAML reader is
\* called and succeeds
C28_Witness ==
    /\ file.pc = "decode" /\ file.ext = "conf"
    /\ file.tried = <<"ini", "yaml">>
    /\ IniResult.tag = "Err" /\ YamlResult.tag = "Ok"

\* ------------------------------------------------------- executor claims

IsPrefix(s, t) == Len(s) <= Len(t) /\ s = SubSeq(t, 1, Len(s))

ExecCalls == <<"create_exec", "start_exec", "inspect_exec">>

\* C29: the daemon is asked to create, to start and to inspect in that
\* order; inspect is asked only after the stream has ended; after an error
\* of a step no later step is taken; an inspect that answers running = true
\* gives an error; a report is returned only after the three calls.
C29_ExecOrder ==
    ex.pc # "idle" =>
        /\ IsPrefix(ex.calls, ExecCalls)
        /\ (Len(ex.calls) = 3 => ex.stream = "ended")
        /\ (ex.stream # "none" => Len(ex.calls) >= 2)
        /\ (ex.pc = "done" /\ ex.result.tag = "Err") =>
              \/ ex.calls = <<"create_exec">> /\ ex.stream = "none"
              \/ ex.calls = <<"create_exec", "start_exec">>
                    /\ ex.stream \in {"none", "error", "ended"}
              \/ ex.calls = ExecCalls
                    /\ (~ex.answer.ok \/ ex.answer.running = Some(TRUE))
        /\ (ex.pc = "done" /\ Len(ex.calls) = 3 /\ ex.answer.ok
              /\ ex.answer.running = Some(TRUE))
              => ex.result.tag = "Err"
        /\ (ex.pc = "done" /\ ex.result.tag = "Ok") =>
              /\ ex.calls = ExecCalls
              /\ ex.stream = "ended"
              /\ ex.answer.running = Some(FALSE)

\* an inspect that answers running = true has given an error
C29_Witness ==
    /\ ex.pc = "done" /\ ex.calls = ExecCalls /\ ex.stream = "ended"
    /\ ex.answer.ok /\ ex.answer.running = Some(TRUE)
    /\ ex.result.tag = "Err"

\* the messages of the frames of some tags, in arrival order
RECURSIVE Messages(_, _)
Messages(l, kinds) ==
    IF l = <<>> THEN ""
    ELSE (IF Head(l).kind \in kinds THEN Head(l).message ELSE "")
            \o Messages(Tail(l), kinds)

Present(text) == IF text = "" THEN None ELSE Some(text)

\* exhaust_stream has returned Ok
Drained == ex.pc = "inspect" \/ (ex.pc = "done" /\ Len(ex.calls) = 3)

\* C30: after exhaust_stream the report's stdout is the messages of the
\* StdOut and Console frames in arrival order and its stderr those of the
\* StdErr frames, each absent when that text is empty; StdIn frames add
\* nothing.
C30_StreamsGathered ==
    Drained =>
        /\ ex.report.stdout = Present(Messages(ex.l, {"StdOut", "Console"}))
        /\ ex.report.stderr = Present(Messages(ex.l, {"StdErr"}))

\* StdOut, StdIn and Console frames have arrived in this order, and no
\* StdErr frame with a message
C30_Witness ==
    /\ Drained
    /\ ex.l = <<Frame("StdOut", "a", TRUE), Frame("StdIn", "i", TRUE),
                Frame("Console", "c", TRUE)>>
    /\ ex.report.stdout = Some("ac")
    /\ ex.report.stderr = None

\* the text of an entry before its first '=', the whole entry without one
RECURSIVE EntryName(_)
EntryName(e) ==
    IF e = <<>> \/ Head(e) = Equals THEN "" ELSE Head(e) \o EntryName(Tail(e))

\* the text of an entry after its first '=', each further '=' read as '.'
RECURSIVE Dotted(_)
Dotted(e) ==
    IF e = <<>> THEN ""
    ELSE (IF Head(e) = Equals THEN "." ELSE Head(e)) \o Dotted(Tail(e))

RECURSIVE EntryValue(_)
EntryValue(e) ==
    IF e = <<>> THEN ""
    ELSE IF Head(e) = Equals THEN Dotted(Tail(e)) ELSE EntryValue(Tail(e))

\* C31: each environment entry sets the variable named before its first '='
\* to the rest with every further '=' read as '.', leaves the other
\* variables alone and does not end the execution: "A=b=c" sets A to "b.c",
\* "A=b" sets A to "b", "A" sets A to "".
C31_Step ==
    LocalEnv =>
        LET e == Head(ex.environment)
        IN  /\ ex'.pc = "env"
            /\ ex'.env = Insert(ex.env, EntryName(e), EntryValue(e))
            /\ e = <<"A", Equals, "b", Equals, "c">> => ex'.env["A"] = "b.c"
            /\ e = <<"A", Equals, "b">> => ex'.env["A"] = "b"
            /\ e = <<"A">> => ex'.env["A"] = ""

C31_EnvironmentEntries == [][C31_Step]_vars

\* the entries A=b then A=b=c have been read
C31_Witness ==
    /\ ex.pc = "env" /\ ex.environment = <<>>
    /\ DOMAIN ex.env = {"A"} /\ ex.env["A"] = "b.c"

\* C32: an execution of a job-run or job-service-run job that has ended has
\* created and started its container or service and awaited it, and has
\* removed it when delete is true.
C32_RunCreatesAndDeletes ==
    (ex.pc = "done" /\ ex.job \in {"job-run", "job-service-run"}) =>
        /\ IsPrefix(<<"create", "start", "wait">>, ex.calls)
        /\ ex.delete => Contains(ex.calls, "remove")

\* the --prefix values of the command line, each once, in the order given
RECURSIVE Given(_, _)
Given(list, acc) ==
    IF list = <<>> THEN acc ELSE Given(Tail(list), PushUnlessContained(acc, Head(list)))

\* C33: with --ofelia the context returned by get_context has the config
\* path /etc/ofelia.conf and, under daemon, allows unsafe jobs and has the
\* prefix list [ofelia]; an explicit --config C gives the path C and explicit
\* --prefix values give the list of exactly those values.
C33_OfeliaCompatibility ==
    (cli.pc = "done" /\ cli.ofelia) =>
        /\ cli.context.config_path =
               IF cli.config = None THEN "/etc/ofelia.conf" ELSE cli.config[1]
        /\ cli.command = "daemon" =>
               /\ cli.context.unsafe_labels
               /\ cli.context.label_prefixes =
                      IF cli.daemon_args.label_prefixes = <<>> THEN <<"ofelia">>
                      ELSE Given(cli.daemon_args.label_prefixes, <<>>)

\* C34: within one loop every timer targets an occurrence strictly later than
\* the instant at which it was computed, with a sleep that is not negative;
\* no Fire is handed over before the occurrence it targets; and the Fire
\* targets an occurrence strictly later than the one of the Fire before it.
C34_FiresStrictlyMonotone ==
    /\ cr.pc # "panicked"
    /\ cr.pc \in {"sleeping", "ready"} =>
           cr.next_occurence > cr.current_time /\ cr.sleep >= 0
    /\ cr.pc = "ready" =>
           cr.now >= cr.next_occurence /\ cr.next_occurence > cr.previous

RECURSIVE LabelsInOrder(_, _, _, _, _)
LabelsInOrder(job_map, prefixes, allow_unsafe_jobs, cid, order) ==
    IF order = <<>> THEN [res |-> "Ok", job_map |-> job_map]
    ELSE LET t == LabelTurn(job_map, prefixes, allow_unsafe_jobs, cid, Head(order))
         IN  IF t.res # "go" THEN [res |-> t.res, job_map |-> <<>>]
             ELSE LabelsInOrder(t.job_map, prefixes, allow_unsafe_jobs, cid, Tail(order))

\* the outcome of a scan that iterates the given labels of container c1 in
\* the given order (the other container carries its enable marker only)
Outcome(order) ==
    LabelsInOrder(<<>>, scan.prefixes, scan.allow_unsafe_jobs, "c1", order)

\* C35: a scan that the daemon answered ends as the scan of the same labels
\* in any other iteration order does: with the same result and, on success,
\* the same map.
C35_OrderIndependent ==
    (scan.pc = "done" /\ scan.result # "ErrList") =>
        \A order \in Orders(scan.containers["c1"]) :
            LET o == Outcome(order)
            IN  /\ o.res = scan.result
                /\ o.res = "Ok" => o.job_map = scan.job_map

\* two labels of one container that give the same parameter of the same job
\* the same value under two configured prefixes
Twins(a, b) ==
    LET pa == split(a.key)
        pb == split(b.key)
    IN  /\ KeyFilter(pa, scan.prefixes) = "pass"
        /\ KeyFilter(pb, scan.prefixes) = "pass"
        /\ pa[1] # pb[1]
        /\ pa[2] = pb[2] /\ pa[3] = pb[3] /\ pa[4] = pb[4]
        /\ a.value = b.value

\* C36: when the container carries such twins, a scan that the daemon
\* answered ends as the scan without one of the twins does: it succeeds when
\* that one succeeds, with the same map.
C36_TwinLabelsAgree ==
    (scan.pc = "done" /\ scan.result # "ErrList") =>
        \A a, b \in scan.containers["c1"] :
            Twins(a, b) =>
                \A order \in Orders(scan.containers["c1"] \ {b}) :
                    LET o == Outcome(order)
                    IN  o.res = "Ok" =>
                            scan.result = "Ok" /\ scan.job_map = o.job_map

\* the container carries the enable marker of the prefix
Marked(c, prefix) ==
    \E l \in scan.containers[c] :
        Concat(l.key) = prefix \o ".enabled" /\ l.value = "true"

\* a container whose labels are about to be iterated was not met before
C37_Once ==
    (scan.pc = "container" /\ scan'.pc = "label") =>
        scan'.container_id \notin scan.container_idx

\* C37 as stated: a label that is stored sits on a container that carries the
\* enable marker of the label's own prefix, and the labels of a container
\* are iterated at most once.
C37_OwnMarkerOnly ==
    /\ [](scan.pc # "idle" /\ scan.last.note = "stored" =>
            Marked(scan.last.container_id, split(scan.last.label.key)[1]))
    /\ [][C37_Once]_vars

\* C37, amended: a label that is stored has a configured prefix and sits on a
\* container that carries the enable marker of some configured prefix, and
\* the labels of a container are iterated at most once.
C37_SomeMarker ==
    /\ [](scan.pc # "idle" /\ scan.last.note = "stored" =>
            /\ Contains(scan.prefixes, split(scan.last.label.key)[1])
            /\ \E i \in 1 .. Len(scan.prefixes) :
                   Marked(scan.last.container_id, scan.prefixes[i]))
    /\ [][C37_Once]_vars

\* a label of prefix ofelia was stored from a container marked for cfc only
C37_Witness ==
    /\ scan.pc # "idle"
    /\ scan.last.note = "stored"
    /\ split(scan.last.label.key)[1] = "ofelia"
    /\ Marked(scan.last.container_id, "cfc")
    /\ ~Marked(scan.last.container_id, "ofelia")

\* the load went through the INI reader and gave jobs
LoadedFromIni ==
    file.pc = "done" /\ file.tried = <<"ini">> /\ file.result.tag = "Ok"

\* the headers [K "N"] of the payload
Headers(items) ==
    { SectionCaptures(trim(items[i].text)) :
        i \in {j \in 1..Len(items) : items[j].type = "Section"} }
    \ {[matches |-> FALSE]}

\* the values that the properties named attr give, in file order, inside
\* the sections headed h
RECURSIVE Overrides(_, _, _, _)
Overrides(items, inside, h, attr) ==
    IF items = <<>> THEN <<>>
    ELSE LET i == Head(items)
             rest == Tail(items)
         IN  CASE i.type = "Section" ->
                    Overrides(rest, SectionCaptures(trim(i.text)) = h, h, attr)
               [] i.type = "SectionEnd" -> Overrides(rest, FALSE, h, attr)
               [] i.type = "Property" ->
                    IF inside /\ i.value # <<>> /\ Concat(trim(i.key)) = attr
                    THEN <<Concat(trim(i.value[1]))>> \o Overrides(rest, inside, h, attr)
                    ELSE Overrides(rest, inside, h, attr)
               [] OTHER -> Overrides(rest, inside, h, attr)

KindsAndNames(jobs) == {<<jobs[i].kind, jobs[i].name>> : i \in 1..Len(jobs)}

\* the header's value unless properties of the section give others: then
\* the one given last
Overridden(v, given) == IF given = <<>> THEN v ELSE given[Len(given)]

====
